---- MODULE Spec2Model ----
(***************************************************************************)
(* Model of the header-rendering engine of the Quipu Analytics Suite       *)
(* (enhanced_header_generator.py): the registry loader, the renderer       *)
(* instance and generate_enhanced_header.                                  *)
(*                                                                         *)
(* Text is modelled by TLA+ strings and a document by the sequence of its  *)
(* lines.  The module is ASCII text: the emoji and bullet signs of the     *)
(* source's literals are left out of the strings and an accented letter is *)
(* written as its base letter; everything else of a modelled line is the   *)
(* source's text.                                                          *)
(*                                                                         *)
(* The installation verifier (verify_installation.py) is modelled as well: *)
(* check_package, verify_packages and main over the modules an             *)
(* environment has.  That file is kept without leading white space; its    *)
(* blocks are read from its statements (def, if/else, for, try/except).    *)
(***************************************************************************)
EXTENDS Integers, Sequences, FiniteSets, TLC

(***************************************************************************)
(* Bounds of the model.                                                    *)
(***************************************************************************)
MaxTicks == 1
TicksPerDay == 2
MaxItems == 7
MaxUuid == 2

(***************************************************************************)
(* Python values.  A value carries its type, because the code is           *)
(* dynamically typed and the registry is unvalidated JSON: dict, list,     *)
(* str, int and None are the types json.load can produce here.             *)
(***************************************************************************)
PyNone == [t |-> "none", v |-> 0]
PyInt(n) == [t |-> "int", v |-> n]
PyStr(s) == [t |-> "str", v |-> s]
PyList(s) == [t |-> "list", v |-> s]
PyDict(f) == [t |-> "dict", v |-> f]

EmptyDict == PyDict(<<>>)

TypeName(x) ==
  CASE x.t = "none" -> "NoneType"
    [] x.t = "int" -> "int"
    [] x.t = "str" -> "str"
    [] x.t = "list" -> "list"
    [] x.t = "dict" -> "dict"

(* The outcome of evaluating a Python expression: a value, or an exception *)
(* of a class with its message, str(e).                                    *)
Ok(x) == [exc |-> "", val |-> x]
Raise(cls, msg) == [exc |-> cls, val |-> msg]
Raised(r) == r.exc # ""

(* two parts of a document built one after the other: the first exception, *)
(* or the lines of both                                                    *)
Then(a, b) == IF Raised(a) THEN a ELSE IF Raised(b) THEN b ELSE Ok(a.val \o b.val)

PyEq(a, b) == a.t = b.t /\ a.v = b.v

IsSubstr(needle, hay) ==
  \E i \in 0..(Len(hay) - Len(needle)) : SubSeq(hay, i + 1, i + Len(needle)) = needle

Truthy(x) ==
  CASE x.t = "none" -> FALSE
    [] x.t = "int" -> x.v # 0
    [] x.t = "str" -> Len(x.v) > 0
    [] x.t = "list" -> Len(x.v) > 0
    [] x.t = "dict" -> DOMAIN x.v # {}

(* repr() of a key as KeyError prints it *)
PyRepr(k) == IF k.t = "str" THEN "'" \o k.v \o "'" ELSE "None"

(* k in c, for a key k that is a str or None *)
PyIn(k, c) ==
  CASE c.t = "dict" -> Ok(k.t = "str" /\ k.v \in DOMAIN c.v)
    [] c.t = "list" -> Ok(\E i \in 1..Len(c.v) : PyEq(c.v[i], k))
    [] c.t = "str" -> IF k.t = "str" THEN Ok(IsSubstr(k.v, c.v))
                      ELSE Raise("TypeError", "'in <string>' requires string as left operand, not "
                                              \o TypeName(k))
    [] OTHER -> Raise("TypeError", "argument of type '" \o TypeName(c) \o "' is not iterable")

(* c[k], for a key k that is a str or None *)
PyGetItem(c, k) ==
  CASE c.t = "dict" -> IF k.t = "str" /\ k.v \in DOMAIN c.v THEN Ok(c.v[k.v])
                       ELSE Raise("KeyError", PyRepr(k))
    [] c.t = "list" -> Raise("TypeError", "list indices must be integers or slices, not "
                                          \o TypeName(k))
    [] c.t = "str" -> Raise("TypeError", "string indices must be integers, not '"
                                         \o TypeName(k) \o "'")
    [] OTHER -> Raise("TypeError", "'" \o TypeName(c) \o "' object is not subscriptable")

(* c.get(k, default), for a literal key k; the default is already evaluated *)
PyGet(c, k, default) ==
  IF c.t = "dict" THEN Ok(IF k \in DOMAIN c.v THEN c.v[k] ELSE default)
  ELSE Raise("AttributeError", "'" \o TypeName(c) \o "' object has no attribute 'get'")

(* 'k' in c for a literal key k: the tests of lines 128..265 *)
HasField(c, k) == PyIn(PyStr(k), c)

PyLen(x) ==
  CASE x.t = "list" -> Ok(Len(x.v))
    [] x.t = "str" -> Ok(Len(x.v))
    [] x.t = "dict" -> Ok(Cardinality(DOMAIN x.v))
    [] OTHER -> Raise("TypeError", "object of type '" \o TypeName(x) \o "' has no len()")

(* the elements a for loop visits; a str yields its characters *)
PyIter(x) ==
  CASE x.t = "list" -> Ok(x.v)
    [] x.t = "str" -> Ok([i \in 1..Len(x.v) |-> PyStr(SubSeq(x.v, i, i))])
    [] x.t \in {"int", "none"} ->
         Raise("TypeError", "'" \o TypeName(x) \o "' object is not iterable")

(* x[:n] of a list or a str *)
PySlice(x, n) ==
  CASE x.t = "list" -> PyList(SubSeq(x.v, 1, IF Len(x.v) < n THEN Len(x.v) ELSE n))
    [] x.t = "str" -> PyStr(SubSeq(x.v, 1, IF Len(x.v) < n THEN Len(x.v) ELSE n))

RECURSIVE JoinStrings(_, _)
JoinStrings(sep, ss) ==
  IF Len(ss) = 0 THEN ""
  ELSE IF Len(ss) = 1 THEN ss[1]
  ELSE ss[1] \o sep \o JoinStrings(sep, Tail(ss))

RECURSIVE Format(_)
(* str(x), as an f-string field formats a value *)
Format(x) ==
  CASE x.t = "str" -> x.v
    [] x.t = "int" -> ToString(x.v)
    [] x.t = "none" -> "None"
    [] x.t = "list" ->
         "[" \o JoinStrings(", ", [i \in 1..Len(x.v) |->
                 IF x.v[i].t = "str" THEN "'" \o x.v[i].v \o "'" ELSE Format(x.v[i])]) \o "]"

(* sep.join(x) *)
PyJoin(sep, x) ==
  LET it == PyIter(x) IN
  IF Raised(it) THEN it
  ELSE IF \E i \in 1..Len(it.val) : it.val[i].t # "str"
  THEN LET i == CHOOSE j \in 1..Len(it.val) :
                  it.val[j].t # "str" /\ \A h \in 1..(j - 1) : it.val[h].t = "str" IN
       Raise("TypeError", "sequence item " \o ToString(i - 1) \o ": expected str instance, "
                          \o TypeName(it.val[i]) \o " found")
  ELSE Ok(PyStr(JoinStrings(sep, [i \in 1..Len(it.val) |-> it.val[i].v])))

LowerChar(c) ==
  CASE c = "A" -> "a" [] c = "B" -> "b" [] c = "C" -> "c" [] c = "D" -> "d"
    [] c = "E" -> "e" [] c = "F" -> "f" [] c = "G" -> "g" [] c = "H" -> "h"
    [] c = "I" -> "i" [] c = "J" -> "j" [] c = "K" -> "k" [] c = "L" -> "l"
    [] c = "M" -> "m" [] c = "N" -> "n" [] c = "O" -> "o" [] c = "P" -> "p"
    [] c = "Q" -> "q" [] c = "R" -> "r" [] c = "S" -> "s" [] c = "T" -> "t"
    [] c = "U" -> "u" [] c = "V" -> "v" [] c = "W" -> "w" [] c = "X" -> "x"
    [] c = "Y" -> "y" [] c = "Z" -> "z" [] OTHER -> c

RECURSIVE Lower(_)
Lower(s) == IF Len(s) = 0 THEN "" ELSE LowerChar(SubSeq(s, 1, 1)) \o Lower(SubSeq(s, 2, Len(s)))

(* x.lower() *)
PyLower(x) ==
  IF x.t = "str" THEN Ok(PyStr(Lower(x.v)))
  ELSE Raise("AttributeError", "'" \o TypeName(x) \o "' object has no attribute 'lower'")

(***************************************************************************)
(* The clock and the sources of fresh values.                              *)
(***************************************************************************)
(* datetime.now().strftime('%Y-%m-%d') of clock reading t *)
FormatDate(t) == "2025-01-0" \o ToString(1 + (t \div TicksPerDay))

(* datetime.now().strftime('%Y-%m-%d %H:%M:%S') of clock reading t *)
FormatTimestamp(t) == FormatDate(t) \o " 00:00:0" \o ToString(t % TicksPerDay)

(* a random source that returns the same value on every call *)
Uuid4Repeating(n) == "00000001-0000-4000-8000-000000000001"

(* str(uuid.uuid4()): the n-th value of the random source *)
Uuid4(n) == "0000000" \o ToString(n) \o "-0000-4000-8000-00000000000" \o ToString(n)

PlatformString == "Linux-6.1-x86_64"
PythonVersion == "3.11.4"

(***************************************************************************)
(* The registry loader.                                                    *)
(***************************************************************************)
FallbackMisspelledAffiliation ==
  PyDict([repository |-> PyDict([name |-> PyStr("Quipu Analytics Suite"),
                                 author |-> PyStr("Bryson Charles de los Reyes, PHD"),
                                 affilation |-> PyStr("Universidad Catolica de Santa Maria"),
                                 license |-> PyStr("MIT"),
                                 version |-> PyStr("v1.3")]),
          notebooks |-> EmptyDict])

(* _get_fallback_registry, lines 65..76 *)
get_fallback_registry ==
  PyDict([repository |-> PyDict([name |-> PyStr("Quipu Analytics Suite"),
                                 author |-> PyStr("Bryson Charles de los Reyes, PHD"),
                                 affiliation |-> PyStr("Universidad Catolica de Santa Maria"),
                                 license |-> PyStr("MIT"),
                                 version |-> PyStr("v1.3")]),
          notebooks |-> EmptyDict])

(* The classes an `except Exception` clause catches: every exception the   *)
(* modelled code can raise is a subclass of Exception.                     *)
ExceptionClasses ==
  {"KeyError", "TypeError", "AttributeError", "JSONDecodeError", "PermissionError"}

ExceptKeyErrorOnly(cls) == cls = "KeyError"

ExceptException(cls) == cls \in ExceptionClasses

(* open() and json.load() on the registry file *)
json_load(f) ==
  CASE f.kind = "unreadable" ->
         Raise("PermissionError", "[Errno 13] Permission denied: 'notebook_registry.json'")
    [] f.kind = "malformed" ->
         Raise("JSONDecodeError", "Expecting value: line 1 column 1 (char 0)")
    [] f.kind = "valid" -> Ok(f.json)

LoadWarnsWhenMissing(f) ==
  IF f.kind = "missing"
  THEN [raised |-> FALSE, registry |-> get_fallback_registry,
        stdout |-> <<"Warning: Could not load registry (missing). Using fallback.">>]
  ELSE LET r == json_load(f) IN
       IF ~Raised(r) THEN [raised |-> FALSE, registry |-> r.val, stdout |-> <<>>]
       ELSE [raised |-> FALSE, registry |-> get_fallback_registry,
             stdout |-> <<"Warning: Could not load registry (" \o r.val \o "). Using fallback.">>]

LoadValidatesRepository(f) ==
  IF f.kind = "missing"
  THEN [raised |-> FALSE, registry |-> get_fallback_registry, stdout |-> <<>>]
  ELSE LET r == json_load(f) IN
       IF ~Raised(r)
       THEN [raised |-> FALSE, stdout |-> <<>>,
             registry |-> IF r.val.t = "dict" /\ "repository" \in DOMAIN r.val.v
                             /\ r.val.v["repository"].t = "dict"
                          THEN r.val ELSE get_fallback_registry]
       ELSE [raised |-> FALSE, registry |-> get_fallback_registry,
             stdout |-> <<"Warning: Could not load registry (" \o r.val \o "). Using fallback.">>]

(* _load_registry: the registry, what it printed, and whether it raised *)
load_registry(f) ==
  IF f.kind = "missing"
  THEN [raised |-> FALSE, registry |-> get_fallback_registry, stdout |-> <<>>]
  ELSE LET r == json_load(f) IN
       IF ~Raised(r) THEN [raised |-> FALSE, registry |-> r.val, stdout |-> <<>>]
       ELSE IF ExceptException(r.exc)
       THEN [raised |-> FALSE, registry |-> get_fallback_registry,
             stdout |-> <<"Warning: Could not load registry (" \o r.val \o "). Using fallback.">>]
       ELSE [raised |-> TRUE, registry |-> PyNone, stdout |-> <<>>]

(***************************************************************************)
(* generate_enhanced_header, lines 83..306: the assembly of the header.    *)
(* Each part yields Ok(<lines>) or the exception it raises.                *)
(***************************************************************************)
SynthesizedWithoutDate(now) ==
  PyDict([title |-> PyStr("Analytics Notebook"),
          version |-> PyStr("v1.3"),
          date |-> PyStr(""),
          format |-> PyStr("simplified")])

(* lines 89..94: the record of an unknown notebook *)
SynthesizedInfo(now) ==
  PyDict([title |-> PyStr("Analytics Notebook"),
          version |-> PyStr("v1.3"),
          date |-> PyStr(FormatDate(now)),
          format |-> PyStr("simplified")])

(* lines 85..94 *)
SelectNotebookInfo(registry, notebook_key, now) ==
  IF ~Truthy(notebook_key) THEN Ok(SynthesizedInfo(now))
  ELSE LET nbs == PyGet(registry, "notebooks", EmptyDict) IN
       IF Raised(nbs) THEN nbs
       ELSE LET known == PyIn(notebook_key, nbs.val) IN
            IF Raised(known) THEN known
            ELSE IF known.val
            THEN LET r == PyGetItem(registry, PyStr("notebooks")) IN
                 IF Raised(r) THEN r ELSE PyGetItem(r.val, notebook_key)
            ELSE Ok(SynthesizedInfo(now))

(* the first exception among repo['author'], repo['affiliation'],          *)
(* repo['license'], repo['name'], in the order the f-string of lines       *)
(* 100..125 evaluates them                                                 *)
RepoFields(repo) ==
  LET order == <<"author", "affiliation", "license", "name">>
      bad == {i \in 1..4 : Raised(PyGetItem(repo, PyStr(order[i])))} IN
  IF bad = {} THEN Ok([k \in {"author", "affiliation", "license", "name"} |->
                         Format(PyGetItem(repo, PyStr(k)).val)])
  ELSE PyGetItem(repo, PyStr(order[CHOOSE i \in bad : \A j \in bad : i <= j]))

(* lines 100..125; info is a dict here, line 97 has raised otherwise *)
HeaderTop(info, r, notebook_id, now106, now114) ==
  LET title == Format(PyGet(info, "title", PyStr("Analytics Notebook")).val)
      date106 == Format(PyGet(info, "date", PyStr(FormatDate(now106))).val)
      date114 == Format(PyGet(info, "date", PyStr(FormatDate(now114))).val)
      version == Format(PyGet(info, "version", PyStr("v1.3")).val) IN
  << "# " \o title,
     "",
     "---",
     "",
     "**Author:** " \o r["author"],
     "**Affiliation:** " \o r["affiliation"],
     "**Date:** " \o date106,
     "**Version:** " \o version,
     "**License:** " \o r["license"],
     "**Notebook ID:** " \o Format(notebook_id),
     "",
     "---",
     "",
     "## Citation",
     r["author"] \o ", \"" \o title \o ",\" " \o r["name"] \o ", " \o r["affiliation"]
        \o ", " \o version \o ", " \o date114 \o ".",
     "",
     "Please cite this notebook if used or adapted in publications, presentations, or derivative work.",
     "",
     "---",
     "",
     "## Contributors / Acknowledgments",
     "- **Primary Author:** " \o r["author"] \o " (" \o r["affiliation"] \o ")",
     "- **Institutional Support:** " \o r["affiliation"] \o " - Advanced Analytics Division",
     "- **Technical Framework:** Built on scikit-learn, pandas, numpy, and plotly ecosystems",
     "- **Methodological Foundation:** Statistical learning principles and modern data science best practices" >>

ScopeHeading == "### Notebook Scope"
ApplicationsHeading == "### Business Applications"
ModelsHeading == "### Models Implemented"
VisualizationsHeading == "### Key Visualizations"
OutcomesHeading == "### Learning Outcomes"

PresentAndNonEmpty(info, field) == field \in DOMAIN info.v /\ Truthy(info.v[field])

(* the test `'field' in notebook_info` of lines 128, 131, 143, 155, 167 *)
FieldPresent(info, field) == field \in DOMAIN info.v

(* lines 128..129 *)
ScopeSection(info) ==
  IF FieldPresent(info, "notebook_scope")
  THEN Ok(<<"", ScopeHeading, Format(info.v["notebook_scope"])>>)
  ELSE Ok(<<>>)

TruncateOneShort(items, n, cap) == IF n > cap THEN PySlice(items, cap - 1) ELSE items

(* the items a truncated section shows: lines 134..141 and alike *)
Truncate(items, n, cap) == IF n > cap THEN PySlice(items, cap) ELSE items

(* lines 131..141, 143..153, 155..165, 167..177: one truncated list        *)
(* section, with its heading, visible cap and the noun of its overflow line*)
ListSection(info, field, heading, cap, noun) ==
  IF ~FieldPresent(info, field) THEN Ok(<<>>)
  ELSE LET items == info.v[field]
           n == PyLen(items) IN
       IF Raised(n) THEN n
       ELSE LET it == PyIter(Truncate(items, n.val, cap)) IN
            IF Raised(it) THEN it
            ELSE Ok(<<"", heading \o " (" \o ToString(n.val) \o " total)">>
                    \o [i \in 1..Len(it.val) |-> "- " \o Format(it.val[i])]
                    \o (IF n.val > cap
                        THEN <<"- *...and " \o ToString(n.val - cap) \o " " \o noun \o "*">>
                        ELSE <<>>))

ApplicationsCap == 5
ModelsCap == 5
VisualizationsCap == 4
OutcomesCap == 3

(* the sections with the scope appended after the lists *)
ContributorSectionsScopeLast(info) ==
  Then(Then(Then(Then(
      ListSection(info, "business_applications", ApplicationsHeading,
                  ApplicationsCap, "more applications"),
      ListSection(info, "models_implemented", ModelsHeading,
                  ModelsCap, "additional models")),
      ListSection(info, "key_visualizations", VisualizationsHeading,
                  VisualizationsCap, "additional visualizations")),
      ListSection(info, "learning_outcomes", OutcomesHeading,
                  OutcomesCap, "additional outcomes")),
      ScopeSection(info))

(* lines 127..177 *)
ContributorSections(info) ==
  Then(Then(Then(Then(
      ScopeSection(info),
      ListSection(info, "business_applications", ApplicationsHeading,
                  ApplicationsCap, "more applications")),
      ListSection(info, "models_implemented", ModelsHeading,
                  ModelsCap, "additional models")),
      ListSection(info, "key_visualizations", VisualizationsHeading,
                  VisualizationsCap, "additional visualizations")),
      ListSection(info, "learning_outcomes", OutcomesHeading,
                  OutcomesCap, "additional outcomes"))

(* lines 179..209 *)
StaticHistoryToProvenance ==
  << "",
     "---",
     "",
     "## Version History",
     "| Version | Date | Notes |",
     "|---------|------|-------|",
     "| v1.3 | 2025-10-02 | Enhanced professional formatting, comprehensive documentation, interactive visualizations |",
     "| v1.2 | 2024-09-15 | Updated analysis methods, improved data generation algorithms |",
     "| v1.0 | 2024-06-10 | Initial release with core analytical framework |",
     "",
     "---",
     "",
     "## Environment Dependencies",
     "- **Python:** 3.8+",
     "- **Core Libraries:** pandas 2.0+, numpy 1.24+, scikit-learn 1.3+",
     "- **Visualization:** plotly 5.0+, matplotlib 3.7+",
     "- **Statistical:** scipy 1.10+, statsmodels 0.14+",
     "- **Development:** jupyter-lab 4.0+, ipywidgets 8.0+",
     "",
     "> **Reproducibility Note:** Use requirements.txt or environment.yml for exact dependency matching.",
     "",
     "---",
     "",
     "## Data Provenance",
     "| Dataset | Source | License | Notes |",
     "|---------|--------|---------|-------|",
     "| Synthetic Data | Generated in-notebook | MIT | Custom algorithms for realistic simulation |",
     "| Statistical Distributions | NumPy/SciPy | BSD-3-Clause | Standard library implementations |",
     "| ML Algorithms | Scikit-learn | BSD-3-Clause | Industry-standard implementations |",
     "| Visualization Schemas | Plotly | MIT | Interactive dashboard frameworks |" >>

PreviewCap == 3

ProvenanceRowEllipsisAtCap(info, field, label) ==
  IF ~FieldPresent(info, field) THEN Ok(<<>>)
  ELSE LET items == info.v[field]
           n == PyLen(items) IN
       IF Raised(n) THEN n
       ELSE LET ex == PyJoin(", ", Truncate(items, n.val, PreviewCap)) IN
            IF Raised(ex) THEN ex
            ELSE Ok(<<label \o ToString(n.val) \o " | " \o ex.val.v
                      \o (IF n.val >= PreviewCap THEN ", ... |" ELSE " |")>>)

(* lines 212..219 and 221..228: one added row of the Data Provenance table *)
ProvenanceRow(info, field, label) ==
  IF ~FieldPresent(info, field) THEN Ok(<<>>)
  ELSE LET items == info.v[field]
           n == PyLen(items) IN
       IF Raised(n) THEN n
       ELSE LET ex == PyJoin(", ", Truncate(items, n.val, PreviewCap)) IN
            IF Raised(ex) THEN ex
            ELSE Ok(<<label \o ToString(n.val) \o " | " \o ex.val.v
                      \o (IF n.val > PreviewCap THEN ", ... |" ELSE " |")>>)

(* lines 211..228 *)
ProvenanceRows(info) ==
  Then(ProvenanceRow(info, "technical_features", "| Technical Features | Implementation | "),
       ProvenanceRow(info, "evaluation_methods",
                     "| Evaluation Methods | Statistical/ML Metrics | "))

CurrentExecutionLabel == "- **Current Execution:** "

(* lines 230..241 *)
ExecutionProvenance(info, notebook_id, execution_metadata, now235) ==
  << "",
     "---",
     "",
     "## Execution Provenance Logs",
     "- **Created:** " \o Format(PyGet(info, "date", PyStr(FormatDate(now235))).val),
     "- **Notebook ID:** " \o Format(notebook_id),
     "- **Execution Environment:** Jupyter Lab / VS Code",
     "- **Computational Requirements:** Standard laptop/workstation (2GB+ RAM recommended)",
     CurrentExecutionLabel \o execution_metadata.execution_timestamp,
     "- **Platform:** " \o execution_metadata.platform,
     "- **Python Version:** " \o execution_metadata.python_version >>

(* lines 243..262 *)
StaticDisclaimer ==
  << "",
     "> **Auto-tracking:** Execution metadata can be programmatically captured for reproducibility.",
     "",
     "---",
     "",
     "## Disclaimer & Responsible Use",
     "This notebook is provided \"as-is\" for educational, research, and professional development purposes. Users assume full responsibility for any results, applications, or decisions derived from this analysis.",
     "",
     "**Professional Standards:**",
     "- Validate all results against domain expertise and additional data sources",
     "- Respect licensing and attribution requirements for all dependencies",
     "- Follow ethical guidelines for data analysis and algorithmic decision-making",
     "- Credit all methodological sources and derivative frameworks appropriately",
     "",
     "**Academic & Commercial Use:**",
     "- Permitted under MIT license with proper attribution",
     "- Suitable for educational curriculum and professional training",
     "- Appropriate for commercial adaptation with citation requirements",
     "- Recommended for reproducible research and transparent analytics" >>

(* lines 271..280: the keyword sets and their sectors, in the order of the *)
(* five tests                                                              *)
SectorTable ==
  << [sector |-> "Financial Services", terms |-> {"financial", "credit", "fraud", "banking"}],
     [sector |-> "Marketing & Sales", terms |-> {"customer", "marketing", "sales", "retail"}],
     [sector |-> "Manufacturing", terms |-> {"manufacturing", "quality", "production"}],
     [sector |-> "Healthcare", terms |-> {"healthcare", "medical", "clinical"}],
     [sector |-> "Cybersecurity", terms |-> {"network", "security", "cyber"}] >>

SectorsFirstMatchOnly(apps) ==
  {SectorTable[i].sector : i \in {i \in 1..Len(SectorTable) :
     \E j \in 1..Len(apps) :
       /\ \E term \in SectorTable[i].terms : IsSubstr(term, Lower(apps[j].v))
       /\ \A h \in 1..(i - 1) :
            \A term \in SectorTable[h].terms : ~IsSubstr(term, Lower(apps[j].v))}}

(* lines 269..280, over the strings of an application list: the set sectors *)
Sectors(apps) ==
  {SectorTable[i].sector : i \in {i \in 1..Len(SectorTable) :
     \E j \in 1..Len(apps) :
       \E term \in SectorTable[i].terms : IsSubstr(term, Lower(apps[j].v))}}

(* the characters of the sector names in the order of their code points *)
CodePoints == " &ABCDEFGHIJKLMNOPQRSTUVWXYZabcdefghijklmnopqrstuvwxyz"

Ord(c) == CHOOSE i \in 1..Len(CodePoints) : SubSeq(CodePoints, i, i) = c

RECURSIVE StrLess(_, _)
(* a < b of two str: the order sorted() uses *)
StrLess(a, b) ==
  IF Len(b) = 0 THEN FALSE
  ELSE IF Len(a) = 0 THEN TRUE
  ELSE IF SubSeq(a, 1, 1) = SubSeq(b, 1, 1)
  THEN StrLess(SubSeq(a, 2, Len(a)), SubSeq(b, 2, Len(b)))
  ELSE Ord(SubSeq(a, 1, 1)) < Ord(SubSeq(b, 1, 1))

RECURSIVE Sorted(_)
(* sorted(S) of a set of str *)
Sorted(S) ==
  IF S = {} THEN <<>>
  ELSE LET least == CHOOSE x \in S : \A y \in S \ {x} : StrLess(x, y) IN
       <<least>> \o Sorted(S \ {least})

(* line 283: sorted(sectors) *)
SortedSectors(apps) == Sorted(Sectors(apps))

IndustryHeading == "**Industry Applications:**"
CrossIndustryLine == "- Cross-industry applications across multiple business domains"

IndustryOmittedWithoutMatch(info) ==
  IF ~FieldPresent(info, "business_applications") THEN Ok(<<>>)
  ELSE LET it == PyIter(info.v["business_applications"]) IN
       IF Raised(it) THEN it
       ELSE IF \E i \in 1..Len(it.val) : it.val[i].t # "str"
       THEN Raise("AttributeError", "object has no attribute 'lower'")
       ELSE IF Len(SortedSectors(it.val)) > 0
       THEN Ok(<<"", IndustryHeading,
                 "- Relevant sectors: " \o JoinStrings(", ", SortedSectors(it.val))>>)
       ELSE Ok(<<>>)

(* lines 264..285 *)
IndustryApplications(info) ==
  IF ~FieldPresent(info, "business_applications") THEN Ok(<<>>)
  ELSE LET it == PyIter(info.v["business_applications"]) IN
       IF Raised(it) THEN it
       ELSE IF \E i \in 1..Len(it.val) : Raised(PyLower(it.val[i]))
       THEN PyLower(it.val[CHOOSE i \in 1..Len(it.val) :
                              Raised(PyLower(it.val[i]))
                              /\ \A j \in 1..(i - 1) : ~Raised(PyLower(it.val[j]))])
       ELSE LET sectors == SortedSectors(it.val) IN
            Ok(<<"", IndustryHeading>>
               \o (IF Len(sectors) > 0
                   THEN <<"- Relevant sectors: " \o JoinStrings(", ", sectors)>>
                   ELSE <<CrossIndustryLine>>))

Tier3Sentence == "Tier 2 completion, time series concepts, intermediate statistics"
GenericSentence == "Appropriate mathematical background for the analytical complexity level"

(* lines 289..302: the keyword pairs in priority order, with their sentences *)
PrerequisiteTable ==
  << [a |-> "tier 1", b |-> "descriptive",
      text |-> "Basic statistics, Excel proficiency, curiosity about data"],
     [a |-> "tier 2", b |-> "regression",
      text |-> "Tier 1 completion, basic linear algebra, introductory statistics"],
     [a |-> "tier 3", b |-> "time series", text |-> Tier3Sentence],
     [a |-> "tier 4", b |-> "unsupervised",
      text |-> "Tier 3 completion, linear algebra, unsupervised learning basics"],
     [a |-> "tier 5", b |-> "ensemble",
      text |-> "Tier 4 completion, ensemble methods understanding, advanced ML concepts"],
     [a |-> "tier 6", b |-> "advanced",
      text |-> "Tier 5 completion, advanced statistics, domain expertise in target application"] >>

ResolveIgnoringSpaces(title_lower) ==
  LET RECURSIVE strip(_)
      strip(s) == IF Len(s) = 0 THEN ""
                  ELSE (IF SubSeq(s, 1, 1) \in {" ", "_"} THEN "" ELSE SubSeq(s, 1, 1))
                       \o strip(SubSeq(s, 2, Len(s)))
      m == {i \in 1..Len(PrerequisiteTable) :
              IsSubstr(strip(PrerequisiteTable[i].a), strip(title_lower))
              \/ IsSubstr(strip(PrerequisiteTable[i].b), strip(title_lower))} IN
  IF m = {} THEN GenericSentence
  ELSE PrerequisiteTable[CHOOSE i \in m : \A j \in m : i <= j].text

ResolveLastMatch(title_lower) ==
  LET m == {i \in 1..Len(PrerequisiteTable) :
              IsSubstr(PrerequisiteTable[i].a, title_lower)
              \/ IsSubstr(PrerequisiteTable[i].b, title_lower)} IN
  IF m = {} THEN GenericSentence
  ELSE PrerequisiteTable[CHOOSE i \in m : \A j \in m : i >= j].text

(* lines 289..302 on the lower-cased title *)
Resolve(title_lower) ==
  LET m == {i \in 1..Len(PrerequisiteTable) :
              IsSubstr(PrerequisiteTable[i].a, title_lower)
              \/ IsSubstr(PrerequisiteTable[i].b, title_lower)} IN
  IF m = {} THEN GenericSentence
  ELSE PrerequisiteTable[CHOOSE i \in m : \A j \in m : i <= j].text

PrerequisitesHeading == "**Recommended Prerequisites:**"

(* lines 287..306 *)
Prerequisites(info) ==
  LET t == PyLower(PyGet(info, "title", PyStr("")).val) IN
  IF Raised(t) THEN t
  ELSE Ok(<<"", PrerequisitesHeading, "- " \o Resolve(t.val.v), "", "---", "", "">>)

(* lines 83..306: the header text, or the first exception of the assembly. *)
(* nows are the readings datetime.now() yields at lines 92, 106, 114, 235; *)
(* uuid is the value str(uuid.uuid4()) yields at line 97.                  *)
HeaderText(registry, execution_metadata, notebook_key, nows, uuid) ==
  LET Try(e, Rest(_)) == IF Raised(e) THEN e ELSE Rest(e.val) IN
  Try(SelectNotebookInfo(registry, notebook_key, nows[1]), LAMBDA info :
  Try(PyGetItem(registry, PyStr("repository")), LAMBDA repo :
  Try(PyGet(info, "notebook_id", PyStr(uuid)), LAMBDA notebook_id :
  Try(RepoFields(repo), LAMBDA fields :
  Try(ContributorSections(info), LAMBDA contrib :
  Try(ProvenanceRows(info), LAMBDA rows :
  Try(IndustryApplications(info), LAMBDA industry :
  Try(Prerequisites(info), LAMBDA prereq :
  Ok(HeaderTop(info, fields, notebook_id, nows[2], nows[3])
     \o contrib
     \o StaticHistoryToProvenance
     \o rows
     \o ExecutionProvenance(info, notebook_id, execution_metadata, nows[4])
     \o StaticDisclaimer
     \o industry
     \o prereq)))))))))

(* lines 319..324: one count line of the summary, printed if the field is  *)
(* in the registry entry                                                   *)
CountLine(info, field, prefix, suffix) ==
  LET has == HasField(info, field) IN
  IF Raised(has) THEN has
  ELSE IF ~has.val THEN Ok(<<>>)
  ELSE LET x == PyGetItem(info, PyStr(field)) IN
       IF Raised(x) THEN x
       ELSE LET n == PyLen(x.val) IN
            IF Raised(n) THEN n ELSE Ok(<<prefix \o ToString(n.val) \o suffix>>)

(* one more print of the call: the lines printed so far, then the lines of  *)
(* r, or the exception that r raises, unless an exception has ended the    *)
(* printing before                                                         *)
Printing(acc, r) ==
  IF acc.exc # "" THEN acc
  ELSE IF Raised(r) THEN [exc |-> r.exc, val |-> r.val, stdout |-> acc.stdout]
  ELSE [exc |-> "", val |-> "", stdout |-> acc.stdout \o r.val]

(* lines 317..318: the registry entry whose counts are printed; an empty    *)
(* dict stands for "not in the registry", where no count is printed.  The  *)
(* registry is a dict here: line 96 has subscripted it.                    *)
SummaryInfo(registry, notebook_key) ==
  LET known == PyIn(notebook_key, PyGet(registry, "notebooks", EmptyDict).val) IN
  IF Raised(known) THEN known
  ELSE IF known.val
  THEN PyGetItem(PyGet(registry, "notebooks", EmptyDict).val, notebook_key)
  ELSE Ok(EmptyDict)

(* lines 319..324: one count line of the entry the summary is about *)
SummaryCount(registry, notebook_key, field, prefix, suffix) ==
  LET info == SummaryInfo(registry, notebook_key) IN
  IF Raised(info) THEN info ELSE CountLine(info.val, field, prefix, suffix)

(* lines 314..324: what the call prints after display(), and the exception *)
(* that ends the printing, if any                                          *)
DisplaySummary(registry, notebook_key) ==
  Printing(Printing(Printing(
      [exc |-> "", val |-> "",
       stdout |-> << "ENHANCED PROFESSIONAL HEADER GENERATED!",
                     "Comprehensive learning information integrated into existing format",
                     "Notebook: " \o (IF Truthy(notebook_key) THEN Format(notebook_key)
                                      ELSE "Auto-detected") >>],
      SummaryCount(registry, notebook_key, "models_implemented",
                   "Models: ", " implemented")),
      SummaryCount(registry, notebook_key, "business_applications",
                   "Applications: ", " business cases")),
      SummaryCount(registry, notebook_key, "learning_outcomes",
                   "Learning Outcomes: ", " objectives"))

ErrorPrefix == "Error generating enhanced header: "

ErrorDocumentWithKey(notebook_key, msg) ==
  <<"# Notebook Header", "", ErrorPrefix \o msg, "Notebook: " \o Format(notebook_key)>>

(* line 331: the document of the except clause *)
ErrorDocument(notebook_key, msg) == <<"# Notebook Header", "", ErrorPrefix \o msg>>

(* an except clause that returns the error document without printing it *)
ExceptClauseSilent(notebook_key, cls, msg, displayed, stdout, info_path) ==
  IF ExceptException(cls)
  THEN [outcome |-> "returned", kind |-> "error", doc |-> ErrorDocument(notebook_key, msg),
        displayed |-> displayed, stdout |-> stdout,
        exc |-> cls, msg |-> msg, info |-> info_path]
  ELSE [outcome |-> "raised", kind |-> "none", doc |-> <<>>,
        displayed |-> displayed, stdout |-> stdout,
        exc |-> cls, msg |-> msg, info |-> info_path]

(* lines 328..331: the except clause, entered with exception (cls, msg)    *)
(* after the call has displayed and printed what it had                    *)
ExceptClause(notebook_key, cls, msg, displayed, stdout, info_path) ==
  IF ExceptException(cls)
  THEN [outcome |-> "returned", kind |-> "error", doc |-> ErrorDocument(notebook_key, msg),
        displayed |-> displayed, stdout |-> stdout \o <<ErrorPrefix \o msg>>,
        exc |-> cls, msg |-> msg, info |-> info_path]
  ELSE [outcome |-> "raised", kind |-> "none", doc |-> <<>>,
        displayed |-> displayed, stdout |-> stdout,
        exc |-> cls, msg |-> msg, info |-> info_path]

(* which NotebookInfo line 85 selects: "entry", "synthesized", or "none"   *)
(* when the selection raises                                               *)
InfoPath(registry, notebook_key) ==
  LET r == SelectNotebookInfo(registry, notebook_key, 0) IN
  IF Raised(r) THEN "none"
  ELSE IF Truthy(notebook_key) /\ PyIn(notebook_key, PyGet(registry, "notebooks", EmptyDict).val).val
  THEN "entry" ELSE "synthesized"

(* lines 312..326: after display() and the prints d of the summary *)
AfterDisplay(d, doc, notebook_key, path) ==
  IF d.exc # "" THEN ExceptClause(notebook_key, d.exc, d.val, <<doc>>, d.stdout, path)
  ELSE [outcome |-> "returned", kind |-> "header", doc |-> doc,
        displayed |-> <<doc>>, stdout |-> d.stdout, exc |-> "", msg |-> "", info |-> path]

(* lines 308..331: after the assembly, whose outcome is body *)
AfterAssembly(body, registry, notebook_key, display_immediately, path) ==
  IF Raised(body) THEN ExceptClause(notebook_key, body.exc, body.val, <<>>, <<>>, path)
  ELSE IF ~display_immediately
  THEN [outcome |-> "returned", kind |-> "header", doc |-> body.val,
        displayed |-> <<>>, stdout |-> <<>>, exc |-> "", msg |-> "", info |-> path]
  ELSE AfterDisplay(DisplaySummary(registry, notebook_key), body.val, notebook_key, path)

(* generate_enhanced_header, lines 78..331: the document returned (or the  *)
(* exception propagated), the documents handed to display() and the lines  *)
(* printed                                                                 *)
generate_enhanced_header(registry, execution_metadata, notebook_key, display_immediately, nows, uuid) ==
  AfterAssembly(HeaderText(registry, execution_metadata, notebook_key, nows, uuid),
                registry, notebook_key, display_immediately,
                InfoPath(registry, notebook_key))

(* whether the call reaches line 97 and draws a uuid *)
DrawsUuid(registry, notebook_key) ==
  ~Raised(SelectNotebookInfo(registry, notebook_key, 0))
  /\ ~Raised(PyGetItem(registry, PyStr("repository")))

(***************************************************************************)
(* The registry files of the model: the states of notebook_registry.json   *)
(* the loader is run on.                                                   *)
(***************************************************************************)
FileRepository ==
  PyDict([name |-> PyStr("Quipu Analytics Suite"),
          author |-> PyStr("Brandon Deloatch"),
          affiliation |-> PyStr("Quipu Research Labs, LLC"),
          license |-> PyStr("MIT"),
          version |-> PyStr("v1.3")])

ApplicationTexts ==
  << "Fraud detection system", "Customer churn prediction", "Inventory planning",
     "Clinical trial analysis", "Network intrusion alerts", "Quality control charts",
     "Demand forecasting", "Route planning" >>

Applications(n) ==
  PyList([i \in 1..n |-> PyStr(IF i <= Len(ApplicationTexts) THEN ApplicationTexts[i]
                               ELSE "Application " \o ToString(i))])

Strings(prefix, n) == PyList([i \in 1..n |-> PyStr(prefix \o " " \o ToString(i))])

LKey(n) == "L" \o ToString(n) \o ".ipynb"

(* a complete entry all of whose lists have n items *)
LEntry(n) ==
  PyDict([title |-> PyStr("Tier 2: Linear Regression"),
          date |-> PyStr("2024-09-15"),
          version |-> PyStr("v1.2"),
          notebook_id |-> PyStr("QAS-T2-" \o ToString(n)),
          notebook_scope |-> PyStr(IF n = 0 THEN "" ELSE "Scope " \o ToString(n)),
          business_applications |-> Applications(n),
          models_implemented |-> Strings("Model", n),
          key_visualizations |-> Strings("Chart", n),
          learning_outcomes |-> Strings("Outcome", n),
          technical_features |-> Strings("Feature", n),
          evaluation_methods |-> Strings("Metric", n)])

SpecialNotebooks ==
  ("bare.ipynb" :> EmptyDict)
  @@ ("Tier3_TimeSeries.ipynb" :> PyDict([title |-> PyStr("Tier3_TimeSeries")]))
  @@ ("Tier3.ipynb" :> PyDict([title |-> PyStr("Tier 3: Time Series Forecasting"),
                               business_applications |-> PyList(<<PyStr("Route planning")>>)]))
  @@ ("Unknown.ipynb" :> PyDict([title |-> PyStr("Unknown Topic"),
                                 models_implemented |-> Strings("Model", 2)]))
  @@ ("" :> PyDict([title |-> PyStr("Tier 1: Descriptive Statistics")]))

RichNotebooks ==
  [k \in {LKey(n) : n \in 0..MaxItems} |->
      LEntry(CHOOSE n \in 0..MaxItems : LKey(n) = k)] @@ SpecialNotebooks

BadEntries ==
  ("str.ipynb" :> PyStr("text"))
  @@ ("len.ipynb" :> PyDict([business_applications |-> PyInt(5)]))
  @@ ("title.ipynb" :> PyDict([title |-> PyInt(7)]))
  @@ ("join.ipynb" :> PyDict([technical_features |-> PyList(<<PyInt(1)>>)]))
  @@ ("lower.ipynb" :> PyDict([business_applications |-> PyList(<<PyInt(3)>>)]))

Valid(json) == [kind |-> "valid", json |-> json]

RegistryFiles ==
  << [kind |-> "missing", json |-> PyNone],
     [kind |-> "malformed", json |-> PyNone],
     [kind |-> "unreadable", json |-> PyNone],
     Valid(PyDict([repository |-> FileRepository, notebooks |-> PyDict(RichNotebooks)])),
     Valid(EmptyDict),
     Valid(PyDict([notebooks |-> PyDict(SpecialNotebooks)])),
     Valid(PyDict([repository |-> PyNone, notebooks |-> EmptyDict])),
     Valid(PyDict([repository |-> PyDict([name |-> PyStr("Quipu Analytics Suite"),
                                          author |-> PyStr("Brandon Deloatch")]),
                   notebooks |-> EmptyDict])),
     Valid(PyDict([repository |-> FileRepository])),
     Valid(PyList(<<>>)),
     Valid(PyDict([repository |-> FileRepository,
                   notebooks |-> PyList(<<PyStr("nb.ipynb")>>)])),
     Valid(PyDict([repository |-> FileRepository, notebooks |-> PyStr("nb.ipynb")])),
     Valid(PyDict([repository |-> FileRepository, notebooks |-> PyNone])),
     Valid(PyDict([repository |-> FileRepository, notebooks |-> PyDict(BadEntries)])) >>

(* Registry entries for the resolver, the classifier and the provenance    *)
(* rows: titles that match several keyword pairs, one pair, or none;       *)
(* applications that match several sectors, one sector twice, or none;     *)
(* technical_features and evaluation_methods present alone and together.   *)
CatalogNotebooks ==
  ("c01.ipynb" :> PyDict([title |-> PyStr("Advanced Regression"),
                          business_applications |->
                            PyList(<<PyStr("Retail banking FRAUD alerts")>>),
                          technical_features |-> Strings("Feature", 4)]))
  @@ ("c02.ipynb" :> PyDict([title |-> PyStr("TIER 6 DESCRIPTIVE ENSEMBLE"),
                             business_applications |->
                               PyList(<<PyStr("Credit scoring"), PyStr("Banking fraud"),
                                        PyStr("Credit limits")>>),
                             evaluation_methods |-> Strings("Metric", 2)]))
  @@ ("c03.ipynb" :> PyDict([title |-> PyStr("Unsupervised Time Series"),
                             business_applications |->
                               PyList(<<PyStr("Sales of medical network security")>>),
                             technical_features |-> Strings("Feature", 3),
                             evaluation_methods |-> Strings("Metric", 4)]))
  @@ ("c04.ipynb" :> PyDict([title |-> PyStr("Ensemble of Unsupervised Models"),
                             business_applications |->
                               PyList(<<PyStr("customer care"), PyStr("QUALITY assurance"),
                                        PyStr("Route planning")>>),
                             technical_features |-> PyList(<<>>)]))
  @@ ("c05.ipynb" :> PyDict([version |-> PyStr("v1.0")]))
  @@ ("c06.ipynb" :> PyDict([title |-> PyStr("")]))
  @@ ("c07.ipynb" :> PyDict([title |-> PyStr("Tier 5"),
                             business_applications |->
                               PyList(<<PyStr("Fraud detection system")>>)]))
  @@ ("c08.ipynb" :> PyDict([title |-> PyStr("Tier 4 Clustering")]))
  @@ ("c09.ipynb" :> PyDict([title |-> PyStr("Advanced Topics")]))
  @@ ("c10.ipynb" :> PyDict([title |-> PyStr("Tier 10: Forecasting")]))

CatalogFiles ==
  << Valid(PyDict([repository |-> FileRepository, notebooks |-> PyDict(CatalogNotebooks)])) >>

(* A small registry for two callers of one instance: an entry with a       *)
(* notebook_id and no date, and an entry with a date and no notebook_id.   *)
SharedNotebooks ==
  ("a.ipynb" :> PyDict([title |-> PyStr("Tier 2: Linear Regression"),
                        notebook_id |-> PyStr("QAS-A-001")]))
  @@ ("b.ipynb" :> PyDict([title |-> PyStr("Tier 4 Clustering"),
                           date |-> PyStr("2024-09-15")]))

SharedFiles ==
  << Valid(PyDict([repository |-> FileRepository, notebooks |-> PyDict(SharedNotebooks)])) >>

(* every state of notebook_registry.json of the model *)
AllFiles == RegistryFiles \o CatalogFiles \o SharedFiles

(* the key strings a call is made with on a registry: the empty key, a key *)
(* no registry lists, a key a malformed `notebooks` matches, and every key *)
(* of the registry's notebooks mapping                                     *)
KeyStrings(reg) ==
  {"", "Unlisted.ipynb", "nb.ipynb"}
  \cup (IF reg.t = "dict" /\ "notebooks" \in DOMAIN reg.v /\ reg.v["notebooks"].t = "dict"
        THEN DOMAIN reg.v["notebooks"].v ELSE {})

(***************************************************************************)
(* The state machine: one registry file, one renderer instance, the clock, *)
(* and calls of generate_enhanced_header on the instance.                  *)
(***************************************************************************)
(***************************************************************************)
(* The installation verifier, verify_installation.py.                      *)
(*                                                                         *)
(* The environment is the interpreter's version and, for every import      *)
(* name, what importing it does: "versioned" (a module with __version__),  *)
(* "unversioned" (a module without), "missing" (no such module), "broken"  *)
(* (the module's own code raises while it is imported, as a binary         *)
(* extension built against another numpy does).                            *)
(***************************************************************************)
ModuleVersion == "2.1.0"

BrokenMessage == "numpy.dtype size changed, may indicate binary incompatibility"

(* importlib.import_module(name) *)
import_module(modules, name) ==
  IF name = "" THEN Raise("ValueError", "Empty module name")
  ELSE IF name \notin DOMAIN modules \/ modules[name] = "missing"
  THEN Raise("ModuleNotFoundError", "No module named '" \o name \o "'")
  ELSE IF modules[name] = "broken" THEN Raise("ValueError", BrokenMessage)
  ELSE Ok(modules[name])

(* the classes an `except ImportError` clause catches *)
ImportErrorClasses == {"ImportError", "ModuleNotFoundError"}

ExceptImportError(cls) == cls \in ImportErrorClasses

(* lines 41..42: getattr(module, '__version__', 'Unknown') *)
VersionOf(module) == IF module = "versioned" THEN ModuleVersion ELSE "Unknown"

(* check_package, lines 34..44; import_name is a str or None *)
check_package(modules, package_name, import_name) ==
  LET name == IF import_name.t = "none" THEN package_name ELSE import_name.v
      module == import_module(modules, name) IN
  IF ~Raised(module) THEN Ok(<<TRUE, VersionOf(module.val)>>)
  ELSE IF ExceptImportError(module.exc) THEN Ok(<<FALSE, "Not installed">>)
  ELSE module

(* get_package_categories, lines 46..89 *)
core_packages ==
  << <<"pandas", "pandas">>, <<"numpy", "numpy">>, <<"scipy", "scipy">>,
     <<"matplotlib", "matplotlib">>, <<"seaborn", "seaborn">>, <<"plotly", "plotly">>,
     <<"scikit-learn", "sklearn">>, <<"statsmodels", "statsmodels">> >>

ml_packages == << <<"xgboost", "xgboost">>, <<"lightgbm", "lightgbm">>, <<"catboost", "catboost">> >>

specialized_packages ==
  << <<"PyWavelets", "pywt">>, <<"diptest", "diptest">>, <<"ta", "ta">>,
     <<"pykalman", "pykalman">> >>

jupyter_packages ==
  << <<"jupyter", "jupyter">>, <<"jupyterlab", "jupyterlab">>, <<"ipywidgets", "ipywidgets">> >>

optional_packages == << <<"tensorflow", "tensorflow">>, <<"torch", "torch">> >>

get_package_categories ==
  << <<"Core Data Science", core_packages>>,
     <<"Machine Learning", ml_packages>>,
     <<" Specialized Analytics", specialized_packages>>,
     <<" Jupyter Environment", jupyter_packages>>,
     <<"Deep Learning (Optional)", optional_packages>> >>

Rule == "======================================================================"

Blanks == "                    "

(* the format specification {s:<20} *)
LeftAlign(s) == IF Len(s) >= Len(Blanks) THEN s ELSE s \o SubSeq(Blanks, 1, Len(Blanks) - Len(s))

(* the format specification {x:.1f} of installed/total*100 *)
Percent(installed, total) ==
  LET tenths == (installed * 2000 + total) \div (2 * total) IN
  ToString(tenths \div 10) \o "." \o ToString(tenths % 10)

(* the minimum version of check_python_version, line 20 *)
required_version == <<3, 8>>

(* sys.version_info[:2] >= required_version: tuples compare item by item *)
VersionAtLeast(v, w) == v[1] > w[1] \/ (v[1] = w[1] /\ v[2] >= w[2])

(* check_python_version, lines 18..32: what it prints and returns *)
check_python_version(python) ==
  [stdout |-> << "Python Version Check:",
                 " Current: " \o ToString(python[1]) \o "." \o ToString(python[2]) \o ".0",
                 " Required: >=" \o ToString(required_version[1]) \o "."
                    \o ToString(required_version[2]),
                 IF VersionAtLeast(python, required_version)
                 THEN " Python version OK" ELSE " Python version too old" >>,
   val |-> VersionAtLeast(python, required_version)]

(* lines 105..110: the line verify_packages prints for one package *)
PackageLine(package_name, checked) ==
  (IF checked[1] THEN " [OK] " ELSE " [MISSING] ") \o LeftAlign(package_name) \o " " \o checked[2]

(* print_summary, lines 141..157 *)
print_summary(python_ok, total_packages, installed_packages, missing_packages) ==
  << Rule,
     "INSTALLATION SUMMARY:",
     " Python Version: " \o (IF python_ok THEN "OK" ELSE "Needs Update"),
     " Packages Installed: " \o ToString(installed_packages) \o "/" \o ToString(total_packages),
     " Success Rate: " \o Percent(installed_packages, total_packages) \o "%" >>
  \o (IF missing_packages = <<>> THEN <<>>
      ELSE << "", "Missing Packages (" \o ToString(Len(missing_packages)) \o "):" >>
           \o [i \in 1..Len(missing_packages) |-> " " \o missing_packages[i]]
           \o << "", "Installation Commands:",
                 " pip install " \o JoinStrings(" ", missing_packages),
                 " # or",
                 " pip install -r requirements.txt" >>)

(* the values np.random.randn gives the correlation of the test data *)
Correlations == {"-0.012", "0.045"}

(* test_basic_functionality, lines 117..138: what it prints, or the        *)
(* exception it lets through                                               *)
test_basic_functionality(modules, correlation) ==
  LET pd == import_module(modules, "pandas")
      np == import_module(modules, "numpy")
      failed == IF Raised(pd) THEN pd ELSE np IN
  IF ~Raised(failed)
  THEN Ok(<< "", "BASIC FUNCTIONALITY TEST:", " Data creation: OK",
             " Correlation calculation: " \o correlation,
             " Basic functionality: WORKING" >>)
  ELSE IF ExceptImportError(failed.exc)
  THEN Ok(<< "", "BASIC FUNCTIONALITY TEST:",
             " Basic functionality test failed: " \o failed.val >>)
  ELSE failed

(* the test of line 163 *)
Ready(python_ok, installed_packages, core_package_count) ==
  python_ok /\ installed_packages >= core_package_count

(* print_final_status, lines 160..170 *)
print_final_status(python_ok, installed_packages, core_package_count) ==
  << "", "OVERALL STATUS:" >>
  \o (IF Ready(python_ok, installed_packages, core_package_count)
      THEN << " READY TO USE!", " Start with: jupyter lab Tier1_Descriptive.ipynb" >>
      ELSE << " SETUP REQUIRED", " Please install missing dependencies" >>)
  \o << Rule >>

(* call and result are the call in progress and the last outcome of one    *)
(* caller, call2 and result2 those of a second caller of the same          *)
(* instance; verifier is the run of the installation verifier              *)
VARIABLES file, constructed, registry, execution_metadata, clock, call, result, last_uuid, call2, result2, verifier

vars == <<file, constructed, registry, execution_metadata, clock, call, result, last_uuid, call2, result2, verifier>>

(* the verifier before main is entered, in an environment with the given   *)
(* interpreter version and modules                                         *)
NotStarted(python, modules) ==
  [pc |-> "start", python |-> python, modules |-> modules,
   python_ok |-> FALSE, core_package_count |-> 0,
   category |-> 1, package |-> 1,
   total_packages |-> 0, installed_packages |-> 0, missing_packages |-> <<>>,
   stdout |-> <<>>, tested |-> FALSE, exc |-> "",
   checked |-> [op |-> "none", package_name |-> "", import_name |-> PyNone,
                outcome |-> Ok(<<FALSE, "">>)]]

(* the verifier where it is not run *)
NotRun == NotStarted(<<3, 8>>, <<>>)

(* the clock starts at the last tick of a day, so that one tick changes the *)
(* date as well as the time of day                                         *)
FirstClock == TicksPerDay - 1

(* the number of datetime.now() readings of one call: lines 92, 106, 114, 235 *)
ClockReads == 4

Idle ==
  [pc |-> "idle", notebook_key |-> PyNone, display_immediately |-> FALSE,
   entered |-> 0, nows |-> <<>>]

NoResult ==
  [op |-> "none", outcome |-> "none", kind |-> "none", doc |-> <<>>, displayed |-> <<>>,
   stdout |-> <<>>, exc |-> "", msg |-> "", info |-> "none",
   notebook_key |-> PyNone, display_immediately |-> FALSE,
   entered |-> 0, nows |-> <<>>, returned |-> 0, uuid |-> ""]

Init ==
  /\ file \in 1..Len(RegistryFiles)
  /\ constructed = FALSE
  /\ registry = PyNone
  /\ execution_metadata = [execution_timestamp |-> "", platform |-> "", python_version |-> ""]
  /\ clock = FirstClock
  /\ call = Idle
  /\ result = NoResult
  /\ last_uuid = 0
  /\ call2 = Idle
  /\ result2 = NoResult
  /\ verifier = NotRun

(* time passes *)
Tick ==
  /\ clock < FirstClock + MaxTicks
  /\ clock' = clock + 1
  /\ UNCHANGED <<file, constructed, registry, execution_metadata, call, result, last_uuid, call2, result2, verifier>>

(* lines 46..50 *)
CaptureMetadata(now) ==
  [execution_timestamp |-> FormatTimestamp(now),
   platform |-> PlatformString,
   python_version |-> PythonVersion]

(* lines 43..50, with the outcome l of the loader *)
Constructed(l) ==
  /\ constructed' = ~l.raised
  /\ registry' = l.registry
  /\ execution_metadata' = IF l.raised THEN execution_metadata ELSE CaptureMetadata(clock)
  /\ result' = [NoResult EXCEPT !.op = "init", !.stdout = l.stdout,
                                !.outcome = IF l.raised THEN "raised" ELSE "returned"]

(* __init__, lines 36..50 *)
Construct ==
  /\ ~constructed
  /\ Constructed(load_registry(AllFiles[file]))
  /\ UNCHANGED <<file, clock, call, last_uuid, call2, result2, verifier>>

(* a caller enters generate_enhanced_header *)
(* a call that loads the registry file again on entry *)
CallRenderReloading(notebook_key, display_immediately) ==
  /\ constructed
  /\ call.pc = "idle"
  /\ call' = [pc |-> "running", notebook_key |-> notebook_key,
              display_immediately |-> display_immediately,
              entered |-> clock, nows |-> <<>>]
  /\ registry' = load_registry(AllFiles[file]).registry
  /\ UNCHANGED <<file, constructed, execution_metadata, clock, result, last_uuid, call2, result2, verifier>>

CallRender(notebook_key, display_immediately) ==
  /\ constructed
  /\ call.pc = "idle"
  /\ call' = [pc |-> "running", notebook_key |-> notebook_key,
              display_immediately |-> display_immediately,
              entered |-> clock, nows |-> <<>>]
  /\ result' = NoResult
  /\ UNCHANGED <<file, constructed, registry, execution_metadata, clock, last_uuid, call2, result2, verifier>>

(* the running call reaches its next datetime.now() *)
ReadClock ==
  /\ call.pc = "running"
  /\ Len(call.nows) < ClockReads
  /\ call' = [call EXCEPT !.nows = Append(@, clock)]
  /\ UNCHANGED <<file, constructed, registry, execution_metadata, clock, result, last_uuid, call2, result2, verifier>>

(* what a finished call c leaves: r is the outcome of the call *)
ResultOf(r, c, uuid) ==
  [op |-> "render", outcome |-> r.outcome, kind |-> r.kind, doc |-> r.doc,
   displayed |-> r.displayed, stdout |-> r.stdout, exc |-> r.exc,
   msg |-> r.msg, info |-> r.info,
   notebook_key |-> c.notebook_key,
   display_immediately |-> c.display_immediately,
   entered |-> c.entered, nows |-> c.nows, returned |-> clock,
   uuid |-> uuid]

Returned(r, uuid) == result' = ResultOf(r, call, uuid)

(* the running call returns (or raises) *)
Return ==
  /\ call.pc = "running"
  /\ Len(call.nows) = ClockReads
  /\ \E u \in (1..MaxUuid) \ {last_uuid} :
       /\ Returned(generate_enhanced_header(registry, execution_metadata, call.notebook_key,
                                            call.display_immediately, call.nows, Uuid4(u)),
                   Uuid4(u))
       /\ last_uuid' = IF DrawsUuid(registry, call.notebook_key) THEN u ELSE last_uuid
  /\ call' = Idle
  /\ UNCHANGED <<file, constructed, registry, execution_metadata, clock, call2, result2, verifier>>

Next ==
  \/ Tick
  \/ Construct
  \/ \E d \in BOOLEAN : CallRender(PyNone, d)
  \/ \E k \in KeyStrings(registry), d \in BOOLEAN : CallRender(PyStr(k), d)
  \/ ReadClock
  \/ Return

Spec == Init /\ [][Next]_vars

(* the renderer on the registry of the catalog entries *)
InitCatalog ==
  /\ file \in (Len(RegistryFiles) + 1)..(Len(RegistryFiles) + Len(CatalogFiles))
  /\ constructed = FALSE
  /\ registry = PyNone
  /\ execution_metadata = [execution_timestamp |-> "", platform |-> "", python_version |-> ""]
  /\ clock = FirstClock
  /\ call = Idle
  /\ result = NoResult
  /\ last_uuid = 0
  /\ call2 = Idle
  /\ result2 = NoResult
  /\ verifier = NotRun

CatalogSpec == InitCatalog /\ [][Next]_vars

(***************************************************************************)
(* The registry file changes while the program runs: it is deleted,        *)
(* emptied or replaced at any moment, before or after the construction     *)
(* and during a call.                                                      *)
(***************************************************************************)
FileStates == {1, 5, Len(AllFiles)}

InitFiles ==
  /\ file \in FileStates
  /\ constructed = FALSE
  /\ registry = PyNone
  /\ execution_metadata = [execution_timestamp |-> "", platform |-> "", python_version |-> ""]
  /\ clock = FirstClock
  /\ call = Idle
  /\ result = NoResult
  /\ last_uuid = 0
  /\ call2 = Idle
  /\ result2 = NoResult
  /\ verifier = NotRun

(* notebook_registry.json is written by someone else *)
RewriteFile ==
  /\ \E f \in FileStates \ {file} : file' = f
  /\ UNCHANGED <<constructed, registry, execution_metadata, clock, call, result, last_uuid, call2, result2, verifier>>

NextFiles == Next \/ RewriteFile

FilesSpec == InitFiles /\ [][NextFiles]_vars

(***************************************************************************)
(* Two callers of one instance.  Each caller makes one call; the calls may *)
(* follow one another or overlap, every step of one between any two steps  *)
(* of the other.  Between calls the instance may be replaced by a new one  *)
(* constructed from the same file.                                         *)
(***************************************************************************)
InitShared ==
  /\ file \in (Len(RegistryFiles) + Len(CatalogFiles) + 1)..Len(AllFiles)
  /\ constructed = FALSE
  /\ registry = PyNone
  /\ execution_metadata = [execution_timestamp |-> "", platform |-> "", python_version |-> ""]
  /\ clock = FirstClock
  /\ call = Idle
  /\ result = NoResult
  /\ last_uuid = 0
  /\ call2 = Idle
  /\ result2 = NoResult
  /\ verifier = NotRun

(* the keys the two callers use: the registry's own and one it lacks *)
SharedKeys == {"a.ipynb", "b.ipynb", "Unlisted.ipynb"}

(* the one call of the first caller *)
CallOnce(notebook_key, display_immediately) ==
  /\ result.op # "render"
  /\ CallRender(notebook_key, display_immediately)

(* a call that stamps the instance with the time of its entry *)
CallRender2Stamping(notebook_key, display_immediately) ==
  /\ constructed
  /\ call2.pc = "idle"
  /\ result2.op # "render"
  /\ call2' = [pc |-> "running", notebook_key |-> notebook_key,
               display_immediately |-> display_immediately,
               entered |-> clock, nows |-> <<>>]
  /\ execution_metadata' = CaptureMetadata(clock)
  /\ UNCHANGED <<file, constructed, registry, clock, call, result, last_uuid, result2, verifier>>

(* the second caller enters generate_enhanced_header *)
CallRender2(notebook_key, display_immediately) ==
  /\ constructed
  /\ call2.pc = "idle"
  /\ result2.op # "render"
  /\ call2' = [pc |-> "running", notebook_key |-> notebook_key,
               display_immediately |-> display_immediately,
               entered |-> clock, nows |-> <<>>]
  /\ UNCHANGED <<file, constructed, registry, execution_metadata, clock, call, result, last_uuid, result2, verifier>>

(* the call of the second caller reaches its next datetime.now() *)
ReadClock2 ==
  /\ call2.pc = "running"
  /\ Len(call2.nows) < ClockReads
  /\ call2' = [call2 EXCEPT !.nows = Append(@, clock)]
  /\ UNCHANGED <<file, constructed, registry, execution_metadata, clock, call, result, last_uuid, result2, verifier>>

(* the call of the second caller returns (or raises) *)
Return2 ==
  /\ call2.pc = "running"
  /\ Len(call2.nows) = ClockReads
  /\ \E u \in (1..MaxUuid) \ {last_uuid} :
       /\ result2' = ResultOf(generate_enhanced_header(registry, execution_metadata,
                                                       call2.notebook_key,
                                                       call2.display_immediately,
                                                       call2.nows, Uuid4(u)),
                              call2, Uuid4(u))
       /\ last_uuid' = IF DrawsUuid(registry, call2.notebook_key) THEN u ELSE last_uuid
  /\ call2' = Idle
  /\ UNCHANGED <<file, constructed, registry, execution_metadata, clock, call, result, verifier>>

(* __init__ of a new instance that takes the place of the first, while no  *)
(* call is in progress and before the first caller's call                  *)
ConstructAgain ==
  /\ constructed
  /\ call.pc = "idle" /\ call2.pc = "idle"
  /\ result.op = "init"
  /\ CaptureMetadata(clock) # execution_metadata
  /\ Constructed(load_registry(AllFiles[file]))
  /\ UNCHANGED <<file, clock, call, last_uuid, call2, result2, verifier>>

NextShared ==
  \/ Tick
  \/ Construct
  \/ ConstructAgain
  \/ \E k \in SharedKeys, d \in BOOLEAN : CallOnce(PyStr(k), d)
  \/ ReadClock
  \/ Return
  \/ \E k \in SharedKeys, d \in BOOLEAN : CallRender2(PyStr(k), d)
  \/ ReadClock2
  \/ Return2

SharedSpec == InitShared /\ [][NextShared]_vars

(***************************************************************************)
(* A run of the installation verifier in an environment: calls of          *)
(* check_package as the test suite makes them, and main.                   *)
(***************************************************************************)
(* the import names of the package table, and sys *)
ImportNames ==
  UNION {{get_package_categories[c][2][i][2] : i \in 1..Len(get_package_categories[c][2])} :
           c \in 1..Len(get_package_categories)}
  \cup {"sys"}

CoreNames == {core_packages[i][2] : i \in 1..Len(core_packages)}

(* The environments of the model: every combination of installed and       *)
(* missing core packages, pandas also without __version__ or broken, and   *)
(* the other packages all installed or all missing; sys is built in and    *)
(* has no __version__.                                                     *)
Environments ==
  {[n \in ImportNames |->
      IF n = "sys" THEN "unversioned"
      ELSE IF n = "pandas" THEN pandas
      ELSE IF n \in CoreNames THEN core[n]
      ELSE others] :
     pandas \in {"versioned", "unversioned", "missing", "broken"},
     core \in [CoreNames \ {"pandas"} -> {"versioned", "missing"}],
     others \in {"versioned", "missing"}}

(* sys.version_info[:2] of the interpreters of the model *)
PythonVersions == {<<2, 9>>, <<3, 7>>, <<3, 8>>, <<3, 12>>}

renderer == <<file, constructed, registry, execution_metadata, clock, call, result, last_uuid, call2, result2>>

InitVerifier ==
  /\ file = 1
  /\ constructed = FALSE
  /\ registry = PyNone
  /\ execution_metadata = [execution_timestamp |-> "", platform |-> "", python_version |-> ""]
  /\ clock = FirstClock
  /\ call = Idle
  /\ result = NoResult
  /\ last_uuid = 0
  /\ call2 = Idle
  /\ result2 = NoResult
  /\ \E python \in PythonVersions, modules \in Environments :
       verifier = NotStarted(python, modules)

(* the arguments check_package is called with from outside main *)
CheckCalls ==
  << <<"sys", PyStr("sys")>>, <<"nonexistent_package_xyz", PyNone>>,
     <<"scikit-learn", PyStr("sklearn")>>, <<"scikit-learn", PyNone>>,
     <<"pandas", PyNone>>, <<"pandas", PyStr("pandas")>>,
     <<"numpy", PyStr("numpy")>> >>

(* check_package(package_name, import_name) is called *)
CheckPackage(package_name, import_name) ==
  /\ verifier.pc = "start"
  /\ verifier.checked.op = "none"
  /\ verifier' = [verifier EXCEPT !.checked =
                    [op |-> "check", package_name |-> package_name,
                     import_name |-> import_name,
                     outcome |-> check_package(verifier.modules, package_name, import_name)]]
  /\ UNCHANGED renderer

(* main, lines 173..185 *)
MainStart ==
  /\ verifier.pc = "start"
  /\ verifier.checked.op = "none"
  /\ verifier' = [verifier EXCEPT
        !.pc = "packages",
        !.python_ok = check_python_version(verifier.python).val,
        !.core_package_count = Len(get_package_categories[1][2]),
        !.stdout = << Rule,
                      " COMPREHENSIVE TIERED ANALYTICS SUITE - INSTALLATION VERIFICATION",
                      Rule >>
                   \o check_python_version(verifier.python).stdout \o <<"">>]
  /\ UNCHANGED renderer

(* line 99 before the first package of a category *)
CategoryLine(v) == IF v.package = 1 THEN <<get_package_categories[v.category][1] \o ":">> ELSE <<>>

(* the last package of its category: line 112 follows *)
LastOfCategory(v) == v.package = Len(get_package_categories[v.category][2])

(* lines 101..112 for the package p and the outcome r of its check *)
Verified(v, p, r) ==
  IF Raised(r)
  THEN [v EXCEPT !.pc = "raised", !.exc = r.exc,
                 !.total_packages = @ + 1,
                 !.stdout = @ \o CategoryLine(v)]
  ELSE [v EXCEPT
          !.total_packages = @ + 1,
          !.installed_packages = IF r.val[1] THEN @ + 1 ELSE @,
          !.missing_packages = IF r.val[1] THEN @ ELSE Append(@, p[1]),
          !.stdout = @ \o CategoryLine(v) \o <<PackageLine(p[1], r.val)>>
                       \o (IF LastOfCategory(v) THEN <<"">> ELSE <<>>),
          !.package = IF LastOfCategory(v) THEN 1 ELSE @ + 1,
          !.category = IF LastOfCategory(v) THEN @ + 1 ELSE @,
          !.pc = IF LastOfCategory(v) /\ v.category = Len(get_package_categories)
                 THEN "summary" ELSE "packages"]

(* the package the loop of verify_packages is at *)
PackageAt(v) == get_package_categories[v.category][2][v.package]

(* verify_packages, lines 98..112: one package *)
VerifyPackage ==
  /\ verifier.pc = "packages"
  /\ verifier' = Verified(verifier, PackageAt(verifier),
                          check_package(verifier.modules, PackageAt(verifier)[1],
                                        PyStr(PackageAt(verifier)[2])))
  /\ UNCHANGED renderer

(* main, lines 188..194: verify_packages has returned *)
Summary ==
  /\ verifier.pc = "summary"
  /\ verifier' = [verifier EXCEPT
        !.stdout = @ \o print_summary(verifier.python_ok, verifier.total_packages,
                                      verifier.installed_packages, verifier.missing_packages),
        !.pc = IF verifier.installed_packages >= verifier.core_package_count
               THEN "test" ELSE "status"]
  /\ UNCHANGED renderer

(* what main is left with after test_basic_functionality gave r *)
Tested(v, r) ==
  IF Raised(r) THEN [v EXCEPT !.pc = "raised", !.exc = r.exc, !.tested = TRUE]
  ELSE [v EXCEPT !.pc = "status", !.tested = TRUE, !.stdout = @ \o r.val]

(* main, line 195 *)
BasicFunctionalityTest ==
  /\ verifier.pc = "test"
  /\ \E correlation \in Correlations :
       verifier' = Tested(verifier, test_basic_functionality(verifier.modules, correlation))
  /\ UNCHANGED renderer

(* main, line 198 *)
FinalStatus ==
  /\ verifier.pc = "status"
  /\ verifier' = [verifier EXCEPT
        !.pc = "done",
        !.stdout = @ \o print_final_status(verifier.python_ok, verifier.installed_packages,
                                           verifier.core_package_count)]
  /\ UNCHANGED renderer

NextVerifier ==
  \/ \E c \in 1..Len(CheckCalls) : CheckPackage(CheckCalls[c][1], CheckCalls[c][2])
  \/ MainStart
  \/ VerifyPackage
  \/ Summary
  \/ BasicFunctionalityTest
  \/ FinalStatus

VerifierSpec == InitVerifier /\ [][NextVerifier]_vars

(***************************************************************************)
(* Vocabulary of the properties.                                           *)
(***************************************************************************)
Rendered == result.op = "render"
FullHeader == Rendered /\ result.outcome = "returned" /\ result.kind = "header"
ErrorDoc == Rendered /\ result.outcome = "returned" /\ result.kind = "error"
Loaded == result.op = "init"

TheFile == AllFiles[file]
LoadFailure == TheFile.kind \in {"missing", "malformed", "unreadable"}

StartsWith(s, prefix) == Len(s) >= Len(prefix) /\ SubSeq(s, 1, Len(prefix)) = prefix

LinesStarting(doc, prefix) == {i \in 1..Len(doc) : StartsWith(doc[i], prefix)}

RepositoryFields == {"name", "author", "affiliation", "license", "version"}

HasRepository(reg) ==
  /\ reg.t = "dict"
  /\ "repository" \in DOMAIN reg.v
  /\ reg.v["repository"].t = "dict"
  /\ RepositoryFields \subseteq DOMAIN reg.v["repository"].v

(* the registry entry of the key of the last call, when line 86 selected it *)
EntryOfCall == registry.v["notebooks"].v[result.notebook_key.v]

(* the notebooks mapping of the registry is a mapping (or absent) without  *)
(* the key of the last call                                                *)
KeyNotListed ==
  /\ registry.t = "dict"
  /\ \/ "notebooks" \notin DOMAIN registry.v
     \/ /\ registry.v["notebooks"].t = "dict"
        /\ \/ result.notebook_key.t = "none"
           \/ result.notebook_key.v \notin DOMAIN registry.v["notebooks"].v

IsHex(c) == c \in {"0", "1", "2", "3", "4", "5", "6", "7", "8", "9", "a", "b", "c", "d", "e", "f"}

(* the shape of a version-4 UUID in its canonical text form *)
IsUuid4Shape(s) ==
  /\ Len(s) = 36
  /\ \A i \in 1..36 : IF i \in {9, 14, 19, 24} THEN SubSeq(s, i, i) = "-"
                      ELSE IsHex(SubSeq(s, i, i))
  /\ SubSeq(s, 15, 15) = "4"
  /\ SubSeq(s, 20, 20) \in {"8", "9", "a", "b"}

(***************************************************************************)
(* C1..C10                                                                 *)
(***************************************************************************)

(* C1: generate_enhanced_header never propagates an exception: whatever    *)
(* the key and whatever registry the loader produced, a finished call has  *)
(* returned a document, the full header (first line "# <title>", ending    *)
(* with the separator) or the minimal error document.                      *)
C1_NeverPropagates ==
  Rendered =>
    /\ result.outcome = "returned"
    /\ \/ /\ result.kind = "header"
          /\ result.exc = ""
          /\ \E i \in 1..Len(result.doc) : result.doc[i] = "## Citation"
       \/ /\ result.kind = "error"
          /\ result.exc # ""
          /\ result.doc[1] = "# Notebook Header"

(* C1 witness: a call on a registry without 'repository' met the KeyError  *)
(* and still returned a document.                                          *)
C1_Witness ==
  /\ ErrorDoc
  /\ result.exc = "KeyError"
  /\ ~HasRepository(registry)

(* C2 as stated: the error document contains both the notebook key of the  *)
(* call and the error message.                                             *)
C2_Original ==
  ErrorDoc =>
    /\ \E i \in 1..Len(result.doc) : IsSubstr(result.msg, result.doc[i])
    /\ \E i \in 1..Len(result.doc) : IsSubstr(Format(result.notebook_key), result.doc[i])

(* C2 amended: after an internal exception the returned document is        *)
(* exactly the heading "# Notebook Header", a blank line and the line      *)
(* "Error generating enhanced header: <exception text>": it holds the      *)
(* error message, and the notebook key is not added to it.                 *)
C2_ErrorDocumentIsMessageOnly ==
  ErrorDoc =>
    /\ result.msg # ""
    /\ result.doc = <<"# Notebook Header", "", "Error generating enhanced header: " \o result.msg>>

(* C2 witness: an error document of a call with a non-empty key that       *)
(* occurs nowhere in the document.                                         *)
C2_Witness ==
  /\ ErrorDoc
  /\ result.notebook_key = PyStr("Unlisted.ipynb")
  /\ \A i \in 1..Len(result.doc) : ~IsSubstr("Unlisted.ipynb", result.doc[i])

(* C3 as stated: after the loader returns, the registry of the instance    *)
(* has a non-null repository record with the five fields, whatever the     *)
(* state of the file.                                                      *)
C3_Original == constructed => HasRepository(registry)

(* C3 amended: after the loader returns, the registry has a complete       *)
(* repository record exactly when the file is missing or unusable (the     *)
(* fallback registry) or the file's own JSON content has one; valid JSON   *)
(* is kept verbatim, without a repository record if it has none.           *)
C3_RepositoryAfterLoad ==
  constructed =>
    /\ HasRepository(registry) <=> (LoadFailure \/ HasRepository(TheFile.json))
    /\ ~LoadFailure => registry = TheFile.json

(* C3 witness: a valid JSON file without a repository record was loaded.   *)
C3_Witness ==
  /\ constructed
  /\ TheFile.kind = "valid"
  /\ TheFile.json.t = "dict"
  /\ ~HasRepository(registry)

(* C4 as stated: the loader never raises, and for a missing file as for an *)
(* unparsable one it returns the default registry and prints a warning.    *)
C4_Original ==
  Loaded =>
    /\ result.outcome = "returned"
    /\ LoadFailure =>
         /\ HasRepository(registry)
         /\ registry.v["notebooks"] = EmptyDict
         /\ Len(result.stdout) > 0

(* C4 amended: the loader never raises and returns the built-in default    *)
(* registry (repository populated, empty notebooks mapping) in both        *)
(* failure cases; it prints the one warning line only when the file exists *)
(* but cannot be read or parsed, and prints nothing when it is missing.    *)
C4_FallbackAndWarning ==
  Loaded =>
    /\ result.outcome = "returned"
    /\ LoadFailure =>
         /\ HasRepository(registry)
         /\ registry.v["repository"].v["author"] = PyStr("Bryson Charles de los Reyes, PHD")
         /\ registry.v["notebooks"] = EmptyDict
    /\ TheFile.kind \in {"malformed", "unreadable"} =>
         /\ Len(result.stdout) = 1
         /\ StartsWith(result.stdout[1], "Warning: Could not load registry (")
    /\ TheFile.kind \in {"missing", "valid"} => result.stdout = <<>>

(* C4 witness: the loader has returned the fallback for a missing file     *)
(* without printing.                                                       *)
C4_Witness ==
  /\ Loaded
  /\ TheFile.kind = "missing"
  /\ result.stdout = <<>>
  /\ registry.v["notebooks"] = EmptyDict

(* C5: after a registry load failure a call with any key returns the full  *)
(* header, whose author and affiliation are the fallback repository's.     *)
C5_RenderAfterLoadFailure ==
  (Rendered /\ LoadFailure) =>
    /\ FullHeader
    /\ LinesStarting(result.doc, "**Author:** ") = {5}
    /\ result.doc[5] = "**Author:** Bryson Charles de los Reyes, PHD"
    /\ LinesStarting(result.doc, "**Affiliation:** ") = {6}
    /\ result.doc[6] = "**Affiliation:** Universidad Catolica de Santa Maria"

(* C5 witness: a call with a key was rendered in display mode on the       *)
(* fallback registry of an unparsable file.                                *)
C5_Witness ==
  /\ FullHeader
  /\ TheFile.kind = "malformed"
  /\ result.notebook_key = PyStr("Unlisted.ipynb")
  /\ result.display_immediately

(* the repository record has the four fields the header uses *)
RepositoryUsable ==
  /\ registry.t = "dict"
  /\ "repository" \in DOMAIN registry.v
  /\ registry.v["repository"].t = "dict"
  /\ {"name", "author", "affiliation", "license"} \subseteq DOMAIN registry.v["repository"].v

(* the header of a key the registry does not list: the synthesized record  *)
SynthesizedHeader ==
  /\ FullHeader
  /\ result.doc[1] = "# Analytics Notebook"
  /\ \E t \in result.entered..result.returned :
       /\ result.doc[7] = "**Date:** " \o FormatDate(t)
       /\ LinesStarting(result.doc, "- **Created:** ") # {}
       /\ \A i \in LinesStarting(result.doc, "- **Created:** ") :
            result.doc[i] = "- **Created:** " \o FormatDate(t)
  /\ result.doc[10] = "**Notebook ID:** " \o result.uuid
  /\ IsUuid4Shape(SubSeq(result.doc[10], 18, Len(result.doc[10])))

(* C6 as stated: for any registry whose notebooks mapping lacks the key,   *)
(* the call does not error and yields the header of the synthesized        *)
(* record: title "Analytics Notebook", today's date, a fresh UUID-v4 id.   *)
C6_Original == (Rendered /\ KeyNotListed) => SynthesizedHeader

(* C6 amended: for any registry that has a repository record with name,    *)
(* author, affiliation and license and whose notebooks mapping lacks the   *)
(* key, the call does not error and yields the header of the synthesized   *)
(* record: title "Analytics Notebook", the date of the call, and a         *)
(* generated identifier of UUID-v4 shape.                                  *)
C6_UnknownKeyHeader == (Rendered /\ KeyNotListed /\ RepositoryUsable) => SynthesizedHeader

(* C6 witness: a key the registry does not list was rendered on a registry *)
(* that lists other notebooks.                                             *)
C6_Witness ==
  /\ FullHeader
  /\ KeyNotListed
  /\ result.notebook_key = PyStr("Unlisted.ipynb")
  /\ "notebooks" \in DOMAIN registry.v
  /\ "bare.ipynb" \in DOMAIN registry.v["notebooks"].v
  /\ result.doc[1] = "# Analytics Notebook"

ConditionalSections ==
  << [field |-> "notebook_scope", heading |-> "### Notebook Scope"],
     [field |-> "business_applications", heading |-> "### Business Applications"],
     [field |-> "models_implemented", heading |-> "### Models Implemented"],
     [field |-> "key_visualizations", heading |-> "### Key Visualizations"],
     [field |-> "learning_outcomes", heading |-> "### Learning Outcomes"] >>

(* the NotebookInfo of the last call has the field *)
CallHasField(field) == result.info = "entry" /\ field \in DOMAIN EntryOfCall.v

(* C7 as stated: a conditional subsection of the Contributors block        *)
(* appears only if its source field is non-empty; an absent field and a    *)
(* present but empty field both produce no subsection header.              *)
C7_Original ==
  FullHeader =>
    \A s \in 1..Len(ConditionalSections) :
      LinesStarting(result.doc, ConditionalSections[s].heading) # {} =>
        /\ CallHasField(ConditionalSections[s].field)
        /\ Truthy(EntryOfCall.v[ConditionalSections[s].field])

(* C7 amended: a conditional subsection appears, once, exactly when its    *)
(* source field is present in the NotebookInfo: an absent field produces   *)
(* no subsection header, a present but empty list produces the header with *)
(* "(0 total)" and no item line, a present but empty scope the header with *)
(* an empty text line.                                                     *)
C7_SectionIffFieldPresent ==
  FullHeader =>
    \A s \in 1..Len(ConditionalSections) :
      LET field == ConditionalSections[s].field
          at == LinesStarting(result.doc, ConditionalSections[s].heading) IN
      /\ Cardinality(at) = IF CallHasField(field) THEN 1 ELSE 0
      /\ (CallHasField(field) /\ ~Truthy(EntryOfCall.v[field])) =>
           \A i \in at :
             /\ result.doc[i] = ConditionalSections[s].heading
                                \o (IF s = 1 THEN "" ELSE " (0 total)")
             /\ result.doc[i + 1] = ""

(* C7 witness: an entry whose lists are present but empty was rendered and *)
(* its Business Applications header is in the document, while another      *)
(* section of the same document is absent with its field.                  *)
C7_Witness ==
  /\ FullHeader
  /\ CallHasField("business_applications")
  /\ EntryOfCall.v["business_applications"] = PyList(<<>>)
  /\ \E i \in 1..Len(result.doc) : result.doc[i] = "### Business Applications (0 total)"

TruncatedSections ==
  << [field |-> "business_applications", heading |-> "### Business Applications",
      cap |-> 5, noun |-> "more applications"],
     [field |-> "models_implemented", heading |-> "### Models Implemented",
      cap |-> 5, noun |-> "additional models"],
     [field |-> "key_visualizations", heading |-> "### Key Visualizations",
      cap |-> 4, noun |-> "additional visualizations"],
     [field |-> "learning_outcomes", heading |-> "### Learning Outcomes",
      cap |-> 3, noun |-> "additional outcomes"] >>

Min(a, b) == IF a < b THEN a ELSE b

(* C8: a truncated list subsection of a list of L items with visible cap N *)
(* consists of its heading, min(L,N) item lines that are the first         *)
(* min(L,N) items in their order, and one overflow line stating L - N with *)
(* the section's noun iff L > N; the subsection ends there.                *)
C8_Truncation ==
  FullHeader =>
    \A s \in 1..Len(TruncatedSections) :
      CallHasField(TruncatedSections[s].field) =>
        LET sec == TruncatedSections[s]
            items == EntryOfCall.v[sec.field].v
            L == Len(items)
            m == Min(L, sec.cap) IN
        \E h \in 1..Len(result.doc) :
          /\ LinesStarting(result.doc, sec.heading) = {h}
          /\ result.doc[h] = sec.heading \o " (" \o ToString(L) \o " total)"
          /\ \A i \in 1..m : result.doc[h + i] = "- " \o Format(items[i])
          /\ IF L > sec.cap
             THEN /\ result.doc[h + m + 1] = "- *...and " \o ToString(L - sec.cap) \o " "
                                             \o sec.noun \o "*"
                  /\ result.doc[h + m + 2] = ""
             ELSE result.doc[h + m + 1] = ""

(* C8 witness: an entry with 7 business applications was rendered as 5     *)
(* bullet lines followed by "...and 2 more applications".                  *)
C8_Witness ==
  /\ FullHeader
  /\ CallHasField("business_applications")
  /\ Len(EntryOfCall.v["business_applications"].v) = 7
  /\ \E h \in 1..Len(result.doc) :
       /\ result.doc[h] = "### Business Applications (7 total)"
       /\ result.doc[h + 1] = "- Fraud detection system"
       /\ result.doc[h + 5] = "- Network intrusion alerts"
       /\ result.doc[h + 6] = "- *...and 2 more applications*"
       /\ result.doc[h + 7] = ""

(* C9 as stated: the Current Execution timestamp of a header is not        *)
(* memoized; it is the time of the call that rendered the document, also   *)
(* when the clock has advanced since the construction of the instance.     *)
C9_Original ==
  FullHeader =>
    /\ Cardinality(LinesStarting(result.doc, "- **Current Execution:** ")) = 1
    /\ \A i \in LinesStarting(result.doc, "- **Current Execution:** ") :
         \E t \in result.entered..result.returned :
           result.doc[i] = "- **Current Execution:** " \o FormatTimestamp(t)

(* the Recommended Prerequisites sentence of a document *)
PrerequisiteLine(doc) ==
  doc[(CHOOSE i \in 1..Len(doc) : doc[i] = "**Recommended Prerequisites:**") + 1]

(* the last call rendered an entry of the registry with this title *)
RenderedTitle(title) ==
  /\ FullHeader
  /\ CallHasField("title")
  /\ EntryOfCall.v["title"] = PyStr(title)

(* C10 as stated: the title "Tier3_TimeSeries" resolves to the Tier-3      *)
(* prerequisite sentence, the title "Unknown Topic" to the generic one.    *)
C10_Original ==
  /\ RenderedTitle("Tier3_TimeSeries") =>
       PrerequisiteLine(result.doc)
         = "- Tier 2 completion, time series concepts, intermediate statistics"
  /\ RenderedTitle("Unknown Topic") =>
       PrerequisiteLine(result.doc)
         = "- Appropriate mathematical background for the analytical complexity level"

(* C10 amended: the title "Tier3_TimeSeries" contains neither "tier 3" nor *)
(* "time series" and resolves, like "Unknown Topic", to the generic        *)
(* fallback sentence; a title that contains the keywords with their space, *)
(* such as "Tier 3: Time Series Forecasting", resolves to the Tier-3       *)
(* sentence verbatim.                                                      *)
C10_Resolve ==
  /\ RenderedTitle("Tier3_TimeSeries") =>
       PrerequisiteLine(result.doc)
         = "- Appropriate mathematical background for the analytical complexity level"
  /\ RenderedTitle("Unknown Topic") =>
       PrerequisiteLine(result.doc)
         = "- Appropriate mathematical background for the analytical complexity level"
  /\ RenderedTitle("Tier 3: Time Series Forecasting") =>
       PrerequisiteLine(result.doc)
         = "- Tier 2 completion, time series concepts, intermediate statistics"

(* C10 witness: the entry titled "Tier3_TimeSeries" was rendered.          *)
C10_Witness ==
  /\ RenderedTitle("Tier3_TimeSeries")
  /\ \E i \in 1..Len(result.doc) : result.doc[i] = "**Recommended Prerequisites:**"

(* the title the resolver is given by the last call: the entry's title, "" *)
(* for an entry without one, the synthesized title for a synthesized record *)
CallTitle ==
  IF result.info = "entry"
  THEN (IF "title" \in DOMAIN EntryOfCall.v THEN EntryOfCall.v["title"].v ELSE "")
  ELSE "Analytics Notebook"

(* the lower-cased title contains a keyword of the i-th pair *)
PairMatches(i, title) ==
  \/ IsSubstr(PrerequisiteTable[i].a, Lower(title))
  \/ IsSubstr(PrerequisiteTable[i].b, Lower(title))

(* C11: a header has exactly one Recommended Prerequisites line; it is the *)
(* sentence of the first of the six keyword pairs, in the order tier 1 ..  *)
(* tier 6, that the lower-cased title matches, and the generic fallback    *)
(* sentence when the title matches no pair or is missing.                  *)
C11_FirstMatchWins ==
  FullHeader =>
    LET heads == {h \in 1..Len(result.doc) : result.doc[h] = PrerequisitesHeading} IN
    /\ Cardinality(heads) = 1
    /\ \A h \in heads :
         /\ StartsWith(result.doc[h + 1], "- ")
         /\ result.doc[h + 2] = ""
         /\ \A i \in 1..Len(PrerequisiteTable) :
              (PairMatches(i, CallTitle) /\ \A j \in 1..(i - 1) : ~PairMatches(j, CallTitle))
                => result.doc[h + 1] = "- " \o PrerequisiteTable[i].text
         /\ (\A i \in 1..Len(PrerequisiteTable) : ~PairMatches(i, CallTitle))
              => result.doc[h + 1] = "- " \o GenericSentence

(* C11 witness: the title "TIER 6 DESCRIPTIVE ENSEMBLE", which matches the *)
(* pairs of tier 1, tier 5 and tier 6, was rendered with the tier-1        *)
(* sentence.                                                               *)
C11_Witness ==
  /\ RenderedTitle("TIER 6 DESCRIPTIVE ENSEMBLE")
  /\ PairMatches(1, CallTitle) /\ PairMatches(5, CallTitle) /\ PairMatches(6, CallTitle)
  /\ PrerequisiteLine(result.doc)
       = "- Basic statistics, Excel proficiency, curiosity about data"

(* some application string contains, in lower case, a keyword of a sector *)
SectorMatched(apps) ==
  \E j \in 1..Len(apps) : \E i \in 1..Len(SectorTable) : \E term \in SectorTable[i].terms :
    IsSubstr(term, Lower(apps[j].v))

(* C12: the Industry Applications block follows a three-way rule: without  *)
(* business_applications the header has no Industry Applications line at   *)
(* all; with it, the heading is followed by exactly one line, the list of  *)
(* matched sectors when a keyword matches and the generic cross-industry   *)
(* sentence when none does (an empty list included), never both.           *)
C12_IndustryLine ==
  FullHeader =>
    LET heads == {h \in 1..Len(result.doc) : result.doc[h] = IndustryHeading}
        lists == LinesStarting(result.doc, "- Relevant sectors: ")
        generic == {h \in 1..Len(result.doc) : result.doc[h] = CrossIndustryLine} IN
    IF ~CallHasField("business_applications")
    THEN heads = {} /\ lists = {} /\ generic = {}
    ELSE \E h \in 1..Len(result.doc) :
           /\ heads = {h}
           /\ result.doc[h + 2] = ""
           /\ IF SectorMatched(EntryOfCall.v["business_applications"].v)
              THEN lists = {h + 1} /\ generic = {}
              ELSE generic = {h + 1} /\ lists = {}

(* C12 witness: an entry whose business_applications is the empty list was *)
(* rendered with the cross-industry sentence.                              *)
C12_Witness ==
  /\ FullHeader
  /\ CallHasField("business_applications")
  /\ EntryOfCall.v["business_applications"] = PyList(<<>>)
  /\ \E h \in 1..Len(result.doc) :
       result.doc[h] = IndustryHeading /\ result.doc[h + 1] = CrossIndustryLine

(* the sectors with a keyword that some application string contains,       *)
(* whatever the case of its letters                                        *)
MatchedSectors(apps) ==
  {SectorTable[i].sector : i \in {i \in 1..Len(SectorTable) :
     \E j \in 1..Len(apps) : \E term \in SectorTable[i].terms :
       IsSubstr(term, Lower(apps[j].v))}}

(* s lists the elements of S once each in ascending order *)
IsSortedListing(s, S) ==
  /\ {s[k] : k \in 1..Len(s)} = S
  /\ \A k \in 1..(Len(s) - 1) : StrLess(s[k], s[k + 1])

(* C13: for a list of application strings with a keyword match, the line   *)
(* of relevant sectors lists exactly the sectors that have a keyword in    *)
(* some string (case-insensitively), each once, in sorted order; for       *)
(* ["Fraud detection system"] that is Financial Services alone.            *)
C13_Classifier ==
  (FullHeader /\ CallHasField("business_applications")) =>
    LET apps == EntryOfCall.v["business_applications"].v
        S == MatchedSectors(apps) IN
    /\ S # {} =>
         \E h \in 1..Len(result.doc) :
           /\ result.doc[h] = IndustryHeading
           /\ \E s \in [1..Cardinality(S) -> S] :
                /\ IsSortedListing(s, S)
                /\ result.doc[h + 1] = "- Relevant sectors: " \o JoinStrings(", ", s)
    /\ apps = <<PyStr("Fraud detection system")>> =>
         \E h \in 1..Len(result.doc) :
           /\ result.doc[h] = IndustryHeading
           /\ result.doc[h + 1] = "- Relevant sectors: Financial Services"

(* C13 witness: one string with keywords of three sectors was rendered;    *)
(* the sectors are listed in sorted order, which is not the order of the   *)
(* tests.                                                                  *)
C13_Witness ==
  /\ FullHeader
  /\ CallHasField("business_applications")
  /\ EntryOfCall.v["business_applications"]
       = PyList(<<PyStr("Sales of medical network security")>>)
  /\ \E h \in 1..Len(result.doc) :
       result.doc[h] = "- Relevant sectors: Cybersecurity, Healthcare, Marketing & Sales"

(* the row the Data Provenance table gets for a present list field: the    *)
(* count, the comma-joined first min(L,3) items, an ellipsis iff L > 3     *)
ExpectedRow(label, items) ==
  label \o ToString(Len(items)) \o " | "
    \o JoinStrings(", ", [i \in 1..Min(Len(items), 3) |-> items[i].v])
    \o (IF Len(items) > 3 THEN ", ... |" ELSE " |")

ExpectedAddedRows ==
  (IF CallHasField("technical_features")
   THEN <<ExpectedRow("| Technical Features | Implementation | ",
                      EntryOfCall.v["technical_features"].v)>>
   ELSE <<>>)
  \o (IF CallHasField("evaluation_methods")
      THEN <<ExpectedRow("| Evaluation Methods | Statistical/ML Metrics | ",
                         EntryOfCall.v["evaluation_methods"].v)>>
      ELSE <<>>)

(* C14: the Data Provenance table of a header has its four static rows,    *)
(* followed by one row for technical_features if present and then one row  *)
(* for evaluation_methods if present, and nothing else; the example cell   *)
(* of an added row is the comma-joined first min(L,3) items, followed by   *)
(* an ellipsis marker iff L > 3.                                           *)
C14_ProvenanceTable ==
  FullHeader =>
    \E h \in 1..Len(result.doc) :
      /\ LinesStarting(result.doc, "| Dataset | Source | License | Notes |") = {h}
      /\ StartsWith(result.doc[h + 2], "| Synthetic Data | ")
      /\ StartsWith(result.doc[h + 3], "| Statistical Distributions | ")
      /\ StartsWith(result.doc[h + 4], "| ML Algorithms | ")
      /\ StartsWith(result.doc[h + 5], "| Visualization Schemas | ")
      /\ \A i \in 1..Len(ExpectedAddedRows) : result.doc[h + 5 + i] = ExpectedAddedRows[i]
      /\ result.doc[h + 6 + Len(ExpectedAddedRows)] = ""

(* C14 witness: an entry with 3 technical features and 4 evaluation        *)
(* methods was rendered: the first row has no ellipsis, the second has one. *)
C14_Witness ==
  /\ FullHeader
  /\ CallHasField("technical_features")
  /\ CallHasField("evaluation_methods")
  /\ \E h \in 1..Len(result.doc) :
       /\ result.doc[h]
            = "| Technical Features | Implementation | 3 | Feature 1, Feature 2, Feature 3 |"
       /\ result.doc[h + 1]
            = "| Evaluation Methods | Statistical/ML Metrics | 4 | Metric 1, Metric 2, Metric 3, ... |"

(***************************************************************************)
(* Two callers.                                                            *)
(***************************************************************************)
Results == {result, result2}

IsHeader(r) == r.op = "render" /\ r.outcome = "returned" /\ r.kind = "header"

(* the registry entry of key k has a notebook_id *)
HasNotebookId(k) ==
  /\ registry.t = "dict"
  /\ "notebooks" \in DOMAIN registry.v
  /\ registry.v["notebooks"].t = "dict"
  /\ k.t = "str"
  /\ k.v \in DOMAIN registry.v["notebooks"].v
  /\ registry.v["notebooks"].v[k.v].t = "dict"
  /\ "notebook_id" \in DOMAIN registry.v["notebooks"].v[k.v].v

NotebookIdOf(k) == registry.v["notebooks"].v[k.v].v["notebook_id"]

(* what follows the prefix on the lines of doc that start with it *)
After(doc, prefix) ==
  {SubSeq(doc[i], Len(prefix) + 1, Len(doc[i])) : i \in LinesStarting(doc, prefix)}

(* the identifiers document doc shows: the header line and the line of the *)
(* Execution Provenance block                                              *)
ShownIds(doc) == After(doc, "**Notebook ID:** ") \cup After(doc, "- **Notebook ID:** ")

(* C15: a header rendered for a key whose entry has a notebook_id shows    *)
(* exactly that identifier, on both of its identifier lines; a header      *)
(* rendered for a key without one (an unknown key included) shows the      *)
(* identifier generated in that call, so that two renders of the same key  *)
(* show different identifiers.                                             *)
C15_Identifier ==
  /\ \A r \in Results :
       IsHeader(r) =>
         /\ Cardinality(LinesStarting(r.doc, "**Notebook ID:** ")) = 1
         /\ Cardinality(LinesStarting(r.doc, "- **Notebook ID:** ")) = 1
         /\ ShownIds(r.doc) = IF HasNotebookId(r.notebook_key)
                              THEN {Format(NotebookIdOf(r.notebook_key))}
                              ELSE {r.uuid}
  /\ (/\ IsHeader(result) /\ IsHeader(result2)
      /\ result.notebook_key = result2.notebook_key
      /\ ~HasNotebookId(result.notebook_key))
     => ShownIds(result.doc) \cap ShownIds(result2.doc) = {}

(* C15 witness: both callers rendered the entry that has no notebook_id,   *)
(* and the two headers show two identifiers.                               *)
C15_Witness ==
  /\ IsHeader(result) /\ IsHeader(result2)
  /\ result.notebook_key = PyStr("b.ipynb")
  /\ result2.notebook_key = PyStr("b.ipynb")
  /\ ~HasNotebookId(result.notebook_key)
  /\ Cardinality(ShownIds(result.doc) \cup ShownIds(result2.doc)) = 2

(***************************************************************************)
(* The registry of an instance.                                            *)
(***************************************************************************)
(* the registry _load_registry returns for the file as it is now *)
RegistryOfFile == load_registry(TheFile).registry

(* C16: the registry is loaded once, by the construction, from the file as *)
(* it is then; from then on no step changes it (no call, in either mode,   *)
(* whether it succeeds or fails, and no change of the file), and a call    *)
(* returns what the registry of the instance gives, whatever the file      *)
(* holds when the call is made.                                            *)
C16_LoadedOnce ==
  [][/\ constructed => (constructed' /\ registry' = registry)
     /\ registry' # registry => (~constructed /\ constructed' /\ registry' = RegistryOfFile)
     /\ (result' # result /\ result'.op = "render")
          => /\ call.pc = "running"
             /\ \E u \in 1..MaxUuid :
                  result' = ResultOf(generate_enhanced_header(registry, execution_metadata,
                                                             call.notebook_key,
                                                             call.display_immediately,
                                                             call.nows, Uuid4(u)),
                                     call, Uuid4(u))
  ]_vars

(* C16 witness: the instance was constructed from the file that lists      *)
(* a.ipynb, the file is missing now, and a call for a.ipynb returned the   *)
(* header of the listed entry.                                             *)
C16_Witness ==
  /\ constructed
  /\ FullHeader
  /\ TheFile.kind = "missing"
  /\ registry # RegistryOfFile
  /\ result.notebook_key = PyStr("a.ipynb")
  /\ result.doc[1] = "# Tier 2: Linear Regression"
  /\ result.doc[10] = "**Notebook ID:** QAS-A-001"

(***************************************************************************)
(* Two calls compared.                                                     *)
(***************************************************************************)
IsIdLine(l) == StartsWith(l, "**Notebook ID:** ") \/ StartsWith(l, "- **Notebook ID:** ")

(* documents d1 and d2 have the same text, their identifier lines left     *)
(* aside when generated is true                                            *)
SameText(d1, d2, generated) ==
  /\ Len(d1) = Len(d2)
  /\ \A i \in 1..Len(d1) :
       \/ d1[i] = d2[i]
       \/ generated /\ IsIdLine(d1[i]) /\ IsIdLine(d2[i])

(* the two callers made the same call at the same clock readings; the      *)
(* registry and the platform are those of the one registry file and the    *)
(* one machine of a behaviour                                              *)
SameInputs ==
  /\ result.op = "render" /\ result2.op = "render"
  /\ result.notebook_key = result2.notebook_key
  /\ result.nows = result2.nows

(* C17 as stated: two calls with the same key, the same registry and the   *)
(* same clock readings and platform return documents with the same text,   *)
(* up to the identifier lines when the identifier is generated.            *)
C17_Original ==
  SameInputs => /\ result.outcome = result2.outcome
                /\ SameText(result.doc, result2.doc, ~HasNotebookId(result.notebook_key))

(***************************************************************************)
(* Calls that overlap.                                                     *)
(***************************************************************************)
(* a step of the first caller's call, of the second caller's call *)
StepOfCall == call' # call \/ (result' # result /\ result'.op = "render")
StepOfCall2 == call2' # call2 \/ result2' # result2

(* what the call c returns when it is the only call of the instance *)
Alone(c, uuid) ==
  ResultOf(generate_enhanced_header(registry, execution_metadata, c.notebook_key,
                                    c.display_immediately, c.nows, uuid),
           c, uuid)

(* C18: whatever the interleaving of the steps of two calls on one         *)
(* instance, no step of a call writes the instance (its registry, its      *)
(* execution metadata), no step of one call touches the other call, and    *)
(* each call returns what it returns alone for its own key, mode and       *)
(* clock readings, with the identifier drawn in it.                        *)
C18_Interleavings ==
  [][/\ (StepOfCall \/ StepOfCall2) => UNCHANGED <<constructed, registry, execution_metadata>>
     /\ StepOfCall => UNCHANGED <<call2, result2>>
     /\ StepOfCall2 => UNCHANGED <<call, result>>
     /\ (result' # result /\ result'.op = "render") => result' = Alone(call, result'.uuid)
     /\ result2' # result2 => result2' = Alone(call2, result2'.uuid)
  ]_vars

(* C18 witness: the first caller entered before the tick of the clock and  *)
(* is between two of its clock readings, and the second caller's call has  *)
(* returned its header after the tick: the two calls overlapped.           *)
C18_Witness ==
  /\ call.pc = "running"
  /\ call.entered < clock
  /\ Len(call.nows) \in 1..(ClockReads - 1)
  /\ IsHeader(result2)
  /\ result2.returned = clock
  /\ result2.entered < clock

(***************************************************************************)
(* The two modes of a call.                                                *)
(***************************************************************************)
(* what the last call returns when made in the other mode *)
InOtherMode ==
  generate_enhanced_header(registry, execution_metadata, result.notebook_key,
                           ~result.display_immediately, result.nows, result.uuid)

(* C19 as stated: a call with display_immediately false never invokes      *)
(* display(); a call with display_immediately true invokes it exactly      *)
(* once, with the document it then returns; the text of the document       *)
(* returned does not depend on the mode.                                   *)
C19_Original ==
  (Rendered /\ result.outcome = "returned") =>
    /\ ~result.display_immediately => result.displayed = <<>>
    /\ result.display_immediately => result.displayed = <<result.doc>>
    /\ result.doc = InOtherMode.doc

(***************************************************************************)
(* What a call in return-only mode does besides returning.                 *)
(***************************************************************************)
ReturnOnly == Rendered /\ ~result.display_immediately

(* C20 as stated: a call with display_immediately false neither invokes    *)
(* display() nor prints anything, whether it succeeds or fails.            *)
C20_Original == ReturnOnly => (result.displayed = <<>> /\ result.stdout = <<>>)

(* C20 amended: a call with display_immediately false never invokes        *)
(* display(); when it returns a header it has printed nothing; when it     *)
(* fails it has printed exactly one line, the error line of the error      *)
(* document it returns.                                                    *)
C20_ReturnOnly ==
  ReturnOnly =>
    /\ result.displayed = <<>>
    /\ FullHeader \/ ErrorDoc
    /\ FullHeader => result.stdout = <<>>
    /\ ErrorDoc => /\ result.stdout = <<ErrorPrefix \o result.msg>>
                   /\ result.doc = <<"# Notebook Header", "", result.stdout[1]>>

(* C20 witness: a call in return-only mode on a registry without           *)
(* 'repository' failed, and its error line was printed.                    *)
C20_Witness ==
  /\ ReturnOnly
  /\ ErrorDoc
  /\ result.displayed = <<>>
  /\ result.stdout = <<"Error generating enhanced header: 'repository'">>

(***************************************************************************)
(* The installation verifier.                                              *)
(***************************************************************************)
Checked == verifier.checked.op = "check"

(* the import name the last call of check_package stands for *)
CheckedName ==
  IF verifier.checked.import_name.t = "none" THEN verifier.checked.package_name
  ELSE verifier.checked.import_name.v

(* importing that name fails in the environment *)
ImportFails == Raised(import_module(verifier.modules, CheckedName))

(* C21 as stated: check_package does not raise; for an import name that    *)
(* fails to import it returns (False, 'Not installed'), for an importable  *)
(* one (True, v) with v the module's __version__ or 'Unknown'; without     *)
(* import_name the package name is the name imported.                      *)
C21_Original ==
  Checked =>
    /\ ~Raised(verifier.checked.outcome)
    /\ ImportFails => verifier.checked.outcome.val = <<FALSE, "Not installed">>
    /\ ~ImportFails =>
         verifier.checked.outcome.val
           = <<TRUE, IF verifier.modules[CheckedName] = "versioned" THEN ModuleVersion
                     ELSE "Unknown">>

(* every core package can be imported in the environment *)
CoreInstalled ==
  \A n \in CoreNames : verifier.modules[n] \in {"versioned", "unversioned"}

Printed(line) == \E i \in 1..Len(verifier.stdout) : verifier.stdout[i] = line

(* verify_packages has returned *)
PackagesVerified == verifier.pc \in {"summary", "test", "status", "done"}

(* C25 as stated: the basic functionality test is run and 'READY TO USE!'  *)
(* is the final status only when every core package is installed; with a   *)
(* core package missing the final status is 'SETUP REQUIRED'; and          *)
(* verify_packages returns total = installed + number of missing packages. *)
C25_Original ==
  /\ verifier.tested => CoreInstalled
  /\ (verifier.pc = "done" /\ ~CoreInstalled)
       => (Printed(" SETUP REQUIRED") /\ ~Printed(" READY TO USE!"))
  /\ PackagesVerified
       => verifier.total_packages
            = verifier.installed_packages + Len(verifier.missing_packages)

(***************************************************************************)
(* The order of the sections of a header.                                  *)
(***************************************************************************)
(* the line every section starts with, in the order of the assembly; the   *)
(* sections of optional fields are marked                                  *)
SectionMarkers ==
  << [starts |-> "# ", optional |-> FALSE],
     [starts |-> "**Author:** ", optional |-> FALSE],
     [starts |-> "**Affiliation:** ", optional |-> FALSE],
     [starts |-> "**Date:** ", optional |-> FALSE],
     [starts |-> "**Version:** ", optional |-> FALSE],
     [starts |-> "**License:** ", optional |-> FALSE],
     [starts |-> "**Notebook ID:** ", optional |-> FALSE],
     [starts |-> "## Citation", optional |-> FALSE],
     [starts |-> "## Contributors / Acknowledgments", optional |-> FALSE],
     [starts |-> "### Notebook Scope", optional |-> TRUE],
     [starts |-> "### Business Applications", optional |-> TRUE],
     [starts |-> "### Models Implemented", optional |-> TRUE],
     [starts |-> "### Key Visualizations", optional |-> TRUE],
     [starts |-> "### Learning Outcomes", optional |-> TRUE],
     [starts |-> "## Version History", optional |-> FALSE],
     [starts |-> "## Environment Dependencies", optional |-> FALSE],
     [starts |-> "## Data Provenance", optional |-> FALSE],
     [starts |-> "## Execution Provenance", optional |-> FALSE],
     [starts |-> "## Disclaimer & Responsible Use", optional |-> FALSE],
     [starts |-> "**Industry Applications:**", optional |-> TRUE],
     [starts |-> "**Recommended Prerequisites:**", optional |-> FALSE] >>

(* the lines of the document of the last call that start as a heading or   *)
(* as a bold label does, as every section marker does                      *)
MarkedLines ==
  {i \in 1..Len(result.doc) :
     result.doc[i] # "" /\ SubSeq(result.doc[i], 1, 1) \in {"#", "*"}}

(* where section m starts in the document of the last call *)
SectionAt(m) == {i \in MarkedLines : StartsWith(result.doc[i], SectionMarkers[m].starts)}

(* C22: in every header the sections start once each (an optional one at   *)
(* most once), in the fixed order of the assembly, whichever optional      *)
(* fields the NotebookInfo has; the title is the first line, no other      *)
(* heading line is in the document, and the document ends with the         *)
(* trailing separator.                                                     *)
C22_SectionOrder ==
  FullHeader =>
    LET marked == MarkedLines
        at == [m \in 1..Len(SectionMarkers) |->
                 {i \in marked : StartsWith(result.doc[i], SectionMarkers[m].starts)}] IN
    /\ at[1] = {1}
    /\ \A m \in 1..Len(SectionMarkers) :
         /\ Cardinality(at[m]) <= 1
         /\ ~SectionMarkers[m].optional => Cardinality(at[m]) = 1
    /\ \A m, n \in 1..Len(SectionMarkers) :
         m < n => \A i \in at[m], j \in at[n] : i < j
    /\ \A i \in marked :
         StartsWith(result.doc[i], "#") => \E m \in 1..Len(SectionMarkers) : i \in at[m]
    /\ \E t \in 1..Len(result.doc) :
         /\ result.doc[t] = "---"
         /\ \A i \in (t + 1)..Len(result.doc) : result.doc[i] = ""
         /\ \A m \in 1..Len(SectionMarkers) : \A i \in at[m] : i < t

(* C22 witness: a header with every optional section, and all twenty-one   *)
(* sections in it.                                                         *)
C22_Witness ==
  /\ FullHeader
  /\ result.notebook_key = PyStr("L2.ipynb")
  /\ \A m \in 1..Len(SectionMarkers) : Cardinality(SectionAt(m)) = 1

(***************************************************************************)
(* Which NotebookInfo a call uses.                                         *)
(***************************************************************************)
(* the key of the last call is a key of the notebooks mapping *)
KeyListed ==
  /\ registry.t = "dict"
  /\ "notebooks" \in DOMAIN registry.v
  /\ registry.v["notebooks"].t = "dict"
  /\ result.notebook_key.t = "str"
  /\ result.notebook_key.v \in DOMAIN registry.v["notebooks"].v

(* the header shows the title of the listed entry, when it has one *)
ShowsEntryTitle ==
  (/\ FullHeader
   /\ EntryOfCall.t = "dict"
   /\ "title" \in DOMAIN EntryOfCall.v
   /\ EntryOfCall.v["title"].t = "str")
  => result.doc[1] = "# " \o EntryOfCall.v["title"].v

(* C23 as stated: a call with a key of the notebooks mapping, the empty    *)
(* string included, uses the entry of that key; the synthesized record is  *)
(* used only for a key the mapping lacks or for no key.                    *)
C23_Original ==
  (Rendered /\ KeyListed) => (result.info = "entry" /\ ShowsEntryTitle)

(***************************************************************************)
(* The dates of one document.                                              *)
(***************************************************************************)
EndsWith(s, suffix) ==
  Len(s) >= Len(suffix) /\ SubSeq(s, Len(s) - Len(suffix) + 1, Len(s)) = suffix

(* the citation sentence: the line under the Citation heading *)
CitationLines == {i + 1 : i \in LinesStarting(result.doc, "## Citation")}

(* C24 as stated: in one header the date of the authorship block, the date *)
(* that ends the citation sentence and the 'Created' date of the Execution *)
(* Provenance block are one value, also for an entry without a date field  *)
(* when the clock passes midnight during the call.                         *)
C24_Original ==
  FullHeader =>
    \E date \in After(result.doc, "**Date:** ") :
      /\ After(result.doc, "**Date:** ") = {date}
      /\ After(result.doc, "- **Created:** ") = {date}
      /\ \A i \in CitationLines : EndsWith(result.doc[i], ", " \o date \o ".")

====
